---- MODULE Spec2Model ----
(***************************************************************************)
(* Golf-exposure features, the Queen weights cache and the spatial-lag fit *)
(* of spatial_lag_assets.py, and the per-metric / per-city batch loops of  *)
(* interactive_map_builder.build_assets and build_all_maps.main.           *)
(*                                                                         *)
(* Strings that the code takes apart (CTUIDs, cache keys) are sequences of *)
(* one-character strings.  A float is a tagged record: a finite number is  *)
(* the rational num/den, and NaN, +Inf, -Inf are their own kinds.          *)
(* Lengths are whole metres.  Data-frame rows are numbered from 1.         *)
(***************************************************************************)
EXTENDS Integers, Sequences, FiniteSets, TLC

\* ------------------------------------------------------------------ bounds
NumTracts == 7      \* tracts in the city's tract frame
MaxFits == 2        \* calls of fit_metric_spatial_lag_values per behaviour
NumCities == 2      \* cached city directories that build_all_maps finds
NumMetrics == 3     \* metrics in a city's profile cache
MaxRefs == 3        \* rows of a golf frame that grows by added references
MaxResid == 2       \* largest residual (in whole units) of the Moran script's model
MaxIdLen == 4       \* characters of a CTUID given to _normalize_ctuid
MaxIndexCities == 2 \* city buttons on maps/index.html
NumKnownCities == 3 \* entries of KNOWN_CITIES / city directories under data/censusShape
MaxCacheCalls == 3  \* calls of build_city_cache_json per behaviour
MaxApplications == 3 \* calls of apply_index_enhancements on one index.html

\* ------------------------------------------------------- program constants
HeadN == 5              \* sub['CTUID'].head(5) in the cache key
distance_unit_m == 1000 \* ExposureConfig.distance_unit_m
max_distance_km == 1000 \* compute_exposure_features(max_distance_km=1000.0)

\* ------------------------------------------------------------------ floats
NaN == [kind |-> "nan"]
PosInf == [kind |-> "inf"]
NegInf == [kind |-> "-inf"]
Num(n, d) == [kind |-> "num", num |-> n, den |-> d]
None == [kind |-> "None"]

\* pd.notna / pd.to_numeric(..., errors='coerce').notna() on a float
notna(v) == v.kind # "nan"
\* np.isfinite
isfinite(v) == v.kind = "num"

\* ----------------------------------------------------------------- strings
Digits == <<"0", "1", "2", "3", "4", "5", "6", "7", "8", "9">>
Digit(n) == Digits[n + 1]

\* str(n) of a non-negative integer
RECURSIVE DecStr(_)
DecStr(n) == IF n < 10 THEN <<Digit(n)>> ELSE DecStr(n \div 10) \o <<Digit(n % 10)>>

\* ord(c) of the characters that occur in ids
Ord(c) ==
    CASE c = "," -> 44 [] c = "." -> 46 [] c = "_" -> 95
      [] OTHER -> 48 + (CHOOSE n \in 0..9 : Digit(n) = c)

\* Python's str < str: lexicographic by code point
RECURSIVE StrLess(_, _)
StrLess(a, b) ==
    IF b = <<>> THEN FALSE
    ELSE IF a = <<>> THEN TRUE
    ELSE IF Ord(a[1]) # Ord(b[1]) THEN Ord(a[1]) < Ord(b[1])
    ELSE StrLess(Tail(a), Tail(b))

RECURSIVE Insert(_, _)
Insert(x, s) ==
    IF s = <<>> THEN <<x>>
    ELSE IF StrLess(x, s[1]) THEN <<x>> \o s
    ELSE <<s[1]>> \o Insert(x, Tail(s))

\* sorted(list of str)
RECURSIVE sorted(_)
sorted(s) == IF s = <<>> THEN <<>> ELSE Insert(s[Len(s)], sorted(SubSeq(s, 1, Len(s) - 1)))

\* sep.join(list of str)
RECURSIVE Join(_, _)
Join(sep, s) ==
    IF s = <<>> THEN <<>>
    ELSE IF Len(s) = 1 THEN s[1]
    ELSE s[1] \o <<sep>> \o Join(sep, Tail(s))

\* s.rstrip('0')
RECURSIVE rstrip0(_)
rstrip0(s) ==
    IF s = <<>> THEN s
    ELSE IF s[Len(s)] = "0" THEN rstrip0(SubSeq(s, 1, Len(s) - 1))
    ELSE s

\* position of the first '.', 0 when there is none
FirstDot(s) ==
    IF \E i \in 1..Len(s) : s[i] = "."
    THEN CHOOSE i \in 1..Len(s) : s[i] = "." /\ \A j \in 1..(i - 1) : s[j] # "."
    ELSE 0

normalize_ctuid(s) ==
    IF FirstDot(s) # 0
    THEN LET left == SubSeq(s, 1, FirstDot(s) - 1)
             right0 == rstrip0(SubSeq(s, FirstDot(s) + 1, Len(s)))
             right == IF right0 = <<>> THEN <<"0">> ELSE right0
         IN left \o <<".">> \o right
    ELSE s

\* seq.head(n)
head(s, n) == SubSeq(s, 1, IF Len(s) < n THEN Len(s) ELSE n)

\* concatenation of the sequences F(s[1]), F(s[2]), ...
FlatMap(s, F(_)) ==
    LET f[i \in 0..Len(s)] == IF i = 0 THEN <<>> ELSE f[i - 1] \o F(s[i])
    IN f[Len(s)]

Range(s) == {s[i] : i \in 1..Len(s)}

\* ---------------------------------------------------------------- geometry
\* Tract polygons are axis-parallel squares [xmin, xmax] x [ymin, ymax] (metres,
\* EPSG:3347 is a planar metric projection); golf courses are points <<x, y>>.
CellM == 2 * 1000

\* Two rows of square tracts, with one empty column before the seventh tract.
Col(i) == (i - 1) \div 2 + (IF i > 6 THEN 1 ELSE 0)
Row(i) == (i - 1) % 2
Box(i) == [xmin |-> Col(i) * CellM, xmax |-> (Col(i) + 1) * CellM,
           ymin |-> Row(i) * CellM, ymax |-> (Row(i) + 1) * CellM]

\* The CTUID column as the shapefile gives it: "1.10", "2.00", "3", "4.00", ...
RawId(i) ==
    IF i % 3 = 0 THEN <<Digit(i)>>
    ELSE IF i % 2 = 1 THEN <<Digit(i), ".", "1", "0">>
    ELSE <<Digit(i), ".", "0", "0">>

\* tracts_3347: one row per tract
TractFrame == [i \in 1..NumTracts |-> [CTUID |-> RawId(i), geometry |-> Box(i)]]

\* Golf courses: at the representative point of tract 1, on the corner that
\* tracts 1..4 share, and in the empty column (inside no tract).
GolfAtRep == <<CellM \div 2, CellM \div 2>>
GolfAtCorner == <<CellM, CellM>>
GolfOutside == <<3 * CellM + CellM \div 2, CellM \div 2>>
GolfCandidates == <<GolfAtRep, GolfAtCorner, GolfOutside>>

\* The golf frames: None, the empty frame, each candidate alone, and all three.
GolfFrames ==
    {None}
    \cup { [kind |-> "frame", rows |-> r] :
             r \in {<<>>, <<GolfAtRep>>, <<GolfAtCorner>>, <<GolfOutside>>, GolfCandidates} }

\* floor(sqrt(n))
RECURSIVE IsqrtIn(_, _, _)
IsqrtIn(n, lo, hi) ==
    IF lo = hi THEN lo
    ELSE LET mid == (lo + hi + 1) \div 2
         IN IF mid * mid <= n THEN IsqrtIn(n, mid, hi) ELSE IsqrtIn(n, lo, mid - 1)
Isqrt(n) == IsqrtIn(n, 0, IF n < 46340 THEN n ELSE 46340)

Abs(x) == IF x < 0 THEN -x ELSE x

\* floor(sqrt(a*a + b*b)) for a >= b > 0 with a large: the root d lies in
\* [a, a + b*b/(2a) + 1], and d*d <= a*a + b*b iff (d - a)*(d + a) <= b*b
RECURSIVE HypotIn(_, _, _, _)
HypotIn(a, b, lo, hi) ==
    IF lo = hi THEN lo
    ELSE LET mid == (lo + hi + 1) \div 2
         IN IF (mid - a) * (mid + a) <= b * b
            THEN HypotIn(a, b, mid, hi) ELSE HypotIn(a, b, lo, mid - 1)

\* shapely: Point.distance(Point), planar, to the whole metre
distance(p, q) ==
    LET dx == Abs(p[1] - q[1])
        dy == Abs(p[2] - q[2])
        a == IF dx > dy THEN dx ELSE dy
        b == IF dx > dy THEN dy ELSE dx
    IN IF b = 0 THEN a
       ELSE IF a < 32768 THEN Isqrt(dx * dx + dy * dy)
       ELSE HypotIn(a, b, a, a + (b * b) \div (2 * a) + 1)

\* shapely: Polygon.representative_point() of a square
representative_point(g) == <<(g.xmin + g.xmax) \div 2, (g.ymin + g.ymax) \div 2>>

\* shapely: polygon.intersects(point): interior or boundary
intersects(g, p) == g.xmin <= p[1] /\ p[1] <= g.xmax /\ g.ymin <= p[2] /\ p[2] <= g.ymax

SeqMin(s) == CHOOSE m \in Range(s) : \A x \in Range(s) : m <= x

\* ---------------------------------------------- compute_exposure_features
\* Variant: a missing reference frame read as distance zero.
EmptyExposure_ZeroDistance(tracts) ==
    [i \in 1..Len(tracts) |->
        [CTUID |-> tracts[i].CTUID, dist_to_gc_km |-> Num(0, 1), golf_count |-> Num(0, 1)]]

\* the early return for a missing or empty reference frame
EmptyExposure(tracts) ==
    [i \in 1..Len(tracts) |->
        [CTUID |-> tracts[i].CTUID, dist_to_gc_km |-> NaN, golf_count |-> Num(0, 1)]]

\* Variant: the distance to the last course of the frame, not the nearest.
DistancesKm_LastCourse(tracts, golf) ==
    [i \in 1..Len(tracts) |->
        LET m == distance(representative_point(tracts[i].geometry), golf[Len(golf)])
        IN IF m > max_distance_km * distance_unit_m
           THEN Num(max_distance_km, 1)
           ELSE Num(m, distance_unit_m)]

\* Variant: the distances are not clipped.
DistancesKm_NoClip(tracts, golf) ==
    [i \in 1..Len(tracts) |->
        Num(SeqMin([k \in 1..Len(golf) |->
                      distance(representative_point(tracts[i].geometry), golf[k])]),
            distance_unit_m)]

\* Variant: a distance beyond the cap is reported as missing.
DistancesKm_NaNBeyondCap(tracts, golf) ==
    [i \in 1..Len(tracts) |->
        LET m == SeqMin([k \in 1..Len(golf) |->
                           distance(representative_point(tracts[i].geometry), golf[k])])
        IN IF m > max_distance_km * distance_unit_m THEN NaN ELSE Num(m, distance_unit_m)]

\* rep_points.distance(gc_union) / cfg.distance_unit_m, then .clip(upper=max)
DistancesKm(tracts, golf) ==
    [i \in 1..Len(tracts) |->
        LET m == SeqMin([k \in 1..Len(golf) |->
                           distance(representative_point(tracts[i].geometry), golf[k])])
        IN IF m > max_distance_km * distance_unit_m
           THEN Num(max_distance_km, 1)
           ELSE Num(m, distance_unit_m)]

\* gpd.sjoin(tracts, golf, how='left', predicate='intersects'): the CTUID column
\* of the joined frame.  A left join keeps a tract that matches no point as one
\* row whose right-hand columns are NaN.
SJoinLeft(tracts, golf) ==
    FlatMap(tracts,
            LAMBDA t :
              LET hits == SelectSeq(golf, LAMBDA p : intersects(t.geometry, p))
              IN IF hits = <<>> THEN <<t.CTUID>>
                 ELSE [k \in 1..Len(hits) |-> t.CTUID])

\* joined.groupby('CTUID').size().reindex(tracts['CTUID'], fill_value=0)
GolfCounts(tracts, golf) ==
    LET joined == SJoinLeft(tracts, golf)
        size(id) == Cardinality({k \in 1..Len(joined) : joined[k] = id})
    IN [i \in 1..Len(tracts) |-> size(tracts[i].CTUID)]

compute_exposure_features(tracts, golf) ==
    IF golf.kind = "None" \/ golf.rows = <<>>
    THEN EmptyExposure(tracts)
    ELSE LET distances_km == DistancesKm(tracts, golf.rows)
             counts == GolfCounts(tracts, golf.rows)
         IN [i \in 1..Len(tracts) |->
               [CTUID |-> tracts[i].CTUID,
                dist_to_gc_km |-> distances_km[i],
                golf_count |-> Num(counts[i], 1)]]

\* ------------------------------------------------------- spatial weights
\* Variant: Rook contiguity, a shared edge of positive length.
Touches_Rook(a, b) ==
    \/ (a.xmax = b.xmin \/ b.xmax = a.xmin) /\ a.ymin < b.ymax /\ b.ymin < a.ymax
    \/ (a.ymax = b.ymin \/ b.ymax = a.ymin) /\ a.xmin < b.xmax /\ b.xmin < a.xmax

\* Two polygons share at least one boundary point (edge or corner).
Touches(a, b) ==
    a.xmin <= b.xmax /\ b.xmin <= a.xmax /\ a.ymin <= b.ymax /\ b.ymin <= a.ymax

\* Variant: each contiguity recorded only at the unit that comes first.
QueenNeighbors_ForwardOnly(sub) ==
    [i \in 1..Len(sub) |->
        {j \in 1..Len(sub) : j > i /\ Touches(sub[i].geometry, sub[j].geometry)}]

\* libpysal: Queen.from_dataframe(sub, use_index=True).neighbors; after
\* reset_index the ids of the weights are the row numbers of sub
QueenNeighbors(sub) ==
    [i \in 1..Len(sub) |->
        {j \in 1..Len(sub) : j # i /\ Touches(sub[i].geometry, sub[j].geometry)}]

\* Variant: binary weights, the transform not applied.
RowStandardize_Binary(neighbors) ==
    [i \in DOMAIN neighbors |-> [j \in neighbors[i] |-> Num(1, 1)]]

\* libpysal: w.transform = 'r'
RowStandardize(neighbors) ==
    [i \in DOMAIN neighbors |->
        [j \in neighbors[i] |-> Num(1, Cardinality(neighbors[i]))]]

\* The weights object.  built_from is not a field of libpysal's W: it records,
\* for the properties below, the CTUID column of the frame the object was built
\* from.
BuildWeights(sub) ==
    [kind |-> "W",
     n |-> Len(sub),
     neighbors |-> QueenNeighbors(sub),
     weights |-> RowStandardize(QueenNeighbors(sub)),
     transform |-> "r",
     built_from |-> [i \in 1..Len(sub) |-> sub[i].CTUID]]

\* ------------------------------------------ fit_metric_spatial_lag_values
MetricReason == "Missing or invalid metric value"
ExposureReason == "Missing golf exposure (no courses in range)"

\* values_by_ctuid.get semantics of Series.map(dict): a missing key gives NaN
MapValue(values, id) == IF id \in DOMAIN values THEN values[id] ELSE NaN

\* Variant: the merge leaves every tract's row in the frame twice.
AlignedFrame_RowsTwice(tracts, exposure, values) ==
    LET ids == [i \in 1..Len(tracts) |-> normalize_ctuid(tracts[i].CTUID)]
        exp_norm == [k \in 1..Len(exposure) |->
                        [exposure[k] EXCEPT !.CTUID = normalize_ctuid(@)]]
        merged == FlatMap(ids,
                    LAMBDA id :
                      LET m == SelectSeq(exp_norm, LAMBDA e : e.CTUID = id)
                      IN IF m = <<>>
                         THEN <<[CTUID |-> id, dist_to_gc_km |-> NaN, golf_count |-> NaN]>>
                         ELSE m \o m)
    IN [k \in 1..Len(merged) |->
          [CTUID |-> merged[k].CTUID,
           dist_to_gc_km |-> merged[k].dist_to_gc_km,
           golf_count |-> merged[k].golf_count,
           y |-> MapValue(values, merged[k].CTUID)]]

\* df: the normalized CTUID column, left-merged with the normalized exposure
\* frame, with the metric column y mapped on
AlignedFrame(tracts, exposure, values) ==
    LET ids == [i \in 1..Len(tracts) |-> normalize_ctuid(tracts[i].CTUID)]
        exp_norm == [k \in 1..Len(exposure) |->
                        [exposure[k] EXCEPT !.CTUID = normalize_ctuid(@)]]
        merged == FlatMap(ids,
                    LAMBDA id :
                      LET m == SelectSeq(exp_norm, LAMBDA e : e.CTUID = id)
                      IN IF m = <<>>
                         THEN <<[CTUID |-> id, dist_to_gc_km |-> NaN, golf_count |-> NaN]>>
                         ELSE m)
    IN [k \in 1..Len(merged) |->
          [CTUID |-> merged[k].CTUID,
           dist_to_gc_km |-> merged[k].dist_to_gc_km,
           golf_count |-> merged[k].golf_count,
           y |-> MapValue(values, merged[k].CTUID)]]

has_valid_y(row) == notna(row.y) /\ isfinite(row.y)
has_valid_dist(row) == notna(row.dist_to_gc_km) /\ isfinite(row.dist_to_gc_km)

\* Variant: only the metric value is examined.
SkipReasons_MetricOnly(df) ==
    LET f[i \in 0..Len(df)] ==
          IF i = 0 THEN <<>>
          ELSE IF ~has_valid_y(df[i]) THEN (df[i].CTUID :> MetricReason) @@ f[i - 1]
          ELSE f[i - 1]
    IN f[Len(df)]

\* the loop over df.iterrows() that fills skip_reasons
SkipReasons(df) ==
    LET f[i \in 0..Len(df)] ==
          IF i = 0 THEN <<>>
          ELSE IF ~has_valid_y(df[i]) THEN (df[i].CTUID :> MetricReason) @@ f[i - 1]
          ELSE IF ~has_valid_dist(df[i]) THEN (df[i].CTUID :> ExposureReason) @@ f[i - 1]
          ELSE f[i - 1]
    IN f[Len(df)]

\* df[pd.to_numeric(df['y'], errors='coerce').notna()]
KeepNumericY(df) == SelectSeq(df, LAMBDA r : notna(r.y))
\* df[np.isfinite(df['dist_to_gc_km'])]
KeepFiniteDist(df) == SelectSeq(df, LAMBDA r : isfinite(r.dist_to_gc_km))
FilterRows(df) == KeepFiniteDist(KeepNumericY(df))

BuildY(df) == [i \in 1..Len(df) |-> df[i].y]
BuildX(df) == [i \in 1..Len(df) |-> <<df[i].dist_to_gc_km, df[i].golf_count>>]

\* Variant: the whole tract frame, not subset to the rows of df.
SubsetTracts_WholeFrame(tracts, df) ==
    [i \in 1..Len(tracts) |-> [tracts[i] EXCEPT !.CTUID = normalize_ctuid(@)]]

\* tr_norm.merge(df[['CTUID']], on='CTUID', how='inner'), then
\* .set_index('CTUID').loc[df['CTUID']].reset_index()
SubsetTracts(tracts, df) ==
    LET tr_norm == [i \in 1..Len(tracts) |->
                       [tracts[i] EXCEPT !.CTUID = normalize_ctuid(@)]]
        merged == FlatMap(tr_norm,
                    LAMBDA t :
                      LET m == SelectSeq(df, LAMBDA r : r.CTUID = t.CTUID)
                      IN [k \in 1..Len(m) |-> t])
    IN FlatMap(df, LAMBDA r : SelectSeq(merged, LAMBDA t : t.CTUID = r.CTUID))

\* f"{len(sub)}_{','.join(sorted(sub['CTUID'].head(5).tolist()))}"
cache_key(sub) ==
    DecStr(Len(sub)) \o <<"_">>
      \o Join(",", sorted(head([i \in 1..Len(sub) |-> sub[i].CTUID], HeadN)))

\* What the libraries do in one call, drawn by the caller of the model:
\*   imports : libpysal and spreg can be imported
\*   queen   : Queen.from_dataframe returns ("ok") or raises ("raise")
\*   ml      : ML_Lag returns a model with predy ("predy"), a model without predy
\*             whose betas are usable ("betas") or not ("none"), or raises ("raise")
\*   lstsq   : np.linalg.lstsq returns ("ok") or raises ("raise")
LibraryOutcomes ==
    { [imports |-> FALSE, queen |-> "ok", ml |-> "predy", lstsq |-> l] : l \in {"ok", "raise"} }
    \cup { [imports |-> TRUE, queen |-> "raise", ml |-> "predy", lstsq |-> "ok"] }
    \cup { [imports |-> TRUE, queen |-> "ok", ml |-> m, lstsq |-> "ok"] :
             m \in {"predy", "betas", "raise"} }
    \cup { [imports |-> TRUE, queen |-> "ok", ml |-> "none", lstsq |-> l] : l \in {"ok", "raise"} }

\* try_fit_spatial_lag: [raised, ml_raised, y_hat, w].  queen is what
\* Queen.from_dataframe(tracts_3347, use_index=True) with w.transform = 'r'
\* gives for the frame passed in, when it does not raise.
try_fit_spatial_lag(y, X, queen, w, env) ==
    IF ~env.imports
    THEN [raised |-> FALSE, ml_raised |-> FALSE, y_hat |-> None, w |-> w]
    ELSE IF w = None /\ env.queen = "raise"
    THEN [raised |-> TRUE, ml_raised |-> FALSE, y_hat |-> None, w |-> None]
    ELSE LET w1 == IF w = None THEN queen ELSE w
         IN \* spreg refuses weights whose n differs from the rows of y
            IF w1.n # Len(y) \/ env.ml = "raise"
            THEN [raised |-> TRUE, ml_raised |-> TRUE, y_hat |-> None, w |-> w1]
            ELSE IF env.ml = "predy"
            THEN [raised |-> FALSE, ml_raised |-> FALSE,
                  y_hat |-> [kind |-> "ML_Lag.predy", y |-> y, X |-> X, w |-> w1.weights],
                  w |-> w1]
            ELSE IF env.ml = "betas"
            THEN [raised |-> FALSE, ml_raised |-> FALSE,
                  y_hat |-> [kind |-> "ML_Lag.betas", y |-> y, X |-> X, w |-> w1.weights],
                  w |-> w1]
            ELSE [raised |-> FALSE, ml_raised |-> FALSE, y_hat |-> None, w |-> w1]

\* np.column_stack([np.ones((n, 1)), X])
WithIntercept(X) == [i \in 1..Len(X) |-> <<Num(1, 1)>> \o X[i]]

\* X_ @ lstsq(X_, y): the least-squares projection of y on [1, X]
OlsFit(y, X) == [kind |-> "lstsq", y |-> y, X |-> WithIntercept(X), w |-> None]

\* Variant: the series indexed by the CTUIDs in reverse row order.
ZScoreSeries_ReversedIndex(y_hat, df) ==
    [kind |-> "Series",
     index |-> [i \in 1..Len(df) |-> df[Len(df) + 1 - i].CTUID],
     zscore_of |-> y_hat]

\* (y_hat - mean) / (std or 1.0), indexed by df['CTUID']
ZScoreSeries(y_hat, df) ==
    [kind |-> "Series",
     index |-> [i \in 1..Len(df) |-> df[i].CTUID],
     zscore_of |-> y_hat]

NoFit ==
    [status |-> "none", out |-> None, skip_reasons |-> <<>>, values |-> <<>>,
     rows |-> <<>>, y |-> <<>>, X |-> <<>>, sub |-> <<>>, w |-> None,
     reached_fit |-> FALSE, cache_hit |-> FALSE, ml_raised |-> FALSE, method |-> "none",
     warnings |-> {}]

\* The first half of a call, up to the cache key: the aligned and filtered
\* frame, skip_reasons, y, X and the tract subset; queen is the weights object
\* that Queen.from_dataframe(sub) with w.transform = 'r' gives when it returns.
FitPrepare(tracts, exposure, values) ==
    LET df0 == AlignedFrame(tracts, exposure, values)
        df == FilterRows(df0)
        sub == SubsetTracts(tracts, df)
    IN [values |-> values, skip_reasons |-> SkipReasons(df0), df |-> df,
        y |-> BuildY(df), X |-> BuildX(df), sub |-> sub,
        cache_key |-> cache_key(sub), queen |-> BuildWeights(sub)]

\* units of a weights object that have no neighbors
Islands(w) == {i \in DOMAIN w.neighbors : w.neighbors[i] = {}}

\* libpysal's warning when the weights it builds have islands
QueenWarnings(w) ==
    IF Islands(w) # {} THEN {"The weights matrix is not fully connected"} ELSE {}

\* warnings.catch_warnings() with warnings.filterwarnings('ignore'): nothing
\* raised as a warning inside the block reaches the caller
IgnoreWarnings(ws) == {}

\* Variant: the object kept in the cache has each contiguity only at the unit
\* that comes first.
CacheStore_ForwardOnly(cache, key, w) ==
    (key :> [w EXCEPT !.neighbors = [i \in DOMAIN w.neighbors |->
                                       {j \in w.neighbors[i] : j > i}]]) @@ cache

\* Variant: the cache keeps only the entry stored last.
CacheStore_OnlyLast(cache, key, w) == (key :> w)

\* w_cache[cache_key] = w; fit_metric_spatial_lag_values._w_cache = w_cache
CacheStore(cache, key, w) == (key :> w) @@ cache

\* The second half: the weights (built or cached), the fit, the fallback and
\* the z-scores.  The result holds the call's locals and what it returned
\* (status "returned": out, skip_reasons) or that it raised; cache is
\* fit_metric_spatial_lag_values._w_cache after the call.
FitFinish(p, cache, env) ==
    LET hit == p.cache_key \in DOMAIN cache
        built == ~hit /\ env.imports /\ env.queen = "ok"
        w == IF hit THEN cache[p.cache_key]
             ELSE IF built THEN p.queen ELSE None
        cache1 == IF built THEN CacheStore(cache, p.cache_key, w) ELSE cache
        tf == try_fit_spatial_lag(p.y, p.X, p.queen, w, env)
        base == [NoFit EXCEPT !.skip_reasons = p.skip_reasons, !.values = p.values,
                              !.rows = p.df, !.y = p.y, !.X = p.X, !.sub = p.sub,
                              !.w = tf.w, !.reached_fit = TRUE, !.cache_hit = hit,
                              !.ml_raised = tf.ml_raised,
                              !.warnings = IF built THEN IgnoreWarnings(QueenWarnings(w))
                                           ELSE {}]
    IN IF p.df = <<>>
       THEN [fit |-> [NoFit EXCEPT !.status = "returned",
                                   !.skip_reasons = p.skip_reasons,
                                   !.values = p.values],
             cache |-> cache]
       ELSE IF tf.raised
       THEN [fit |-> [base EXCEPT !.status = "raised"], cache |-> cache1]
       ELSE IF tf.y_hat # None
       THEN [fit |-> [base EXCEPT !.status = "returned",
                                  !.out = ZScoreSeries(tf.y_hat, p.df),
                                  !.method = tf.y_hat.kind],
             cache |-> cache1]
       ELSE IF env.lstsq = "raise"
       THEN [fit |-> [base EXCEPT !.status = "returned", !.method = "lstsq"],
             cache |-> cache1]
       ELSE [fit |-> [base EXCEPT !.status = "returned",
                                  !.out = ZScoreSeries(OlsFit(p.y, p.X), p.df),
                                  !.method = "lstsq"],
             cache |-> cache1]

\* return out, skip_reasons
Returned(f) == <<f.out, f.skip_reasons>>

fit_metric_spatial_lag_values(tracts, exposure, values, cache, env) ==
    FitFinish(FitPrepare(tracts, exposure, values), cache, env)

\* ------------------------------------------------------------------ inputs
MetricValue(i) == Num(100 + i, 1)

\* A metric's values keyed by normalized CTUID, as build_assets keys them: a
\* finite value for every tract of the frame.
AllValues(frame) ==
    [id \in {normalize_ctuid(frame[i].CTUID) : i \in 1..Len(frame)} |->
        MetricValue(CHOOSE i \in 1..Len(frame) : normalize_ctuid(frame[i].CTUID) = id)]
\* ... except that tract i has the value b
WithValue(frame, i, b) ==
    [AllValues(frame) EXCEPT ![normalize_ctuid(frame[i].CTUID)] = b]
\* ... except that tract i has no entry
WithoutTract(frame, i) ==
    [id \in (DOMAIN AllValues(frame)) \ {normalize_ctuid(frame[i].CTUID)} |->
        AllValues(frame)[id]]

\* values_by_ctuid of a call: at most one tract has NaN, +Inf or -Inf, or has
\* no entry.
ValueMaps ==
    {AllValues(TractFrame)}
    \cup { WithValue(TractFrame, i, b) : i \in 1..NumTracts, b \in {NaN, PosInf, NegInf} }
    \cup { WithoutTract(TractFrame, i) : i \in 1..NumTracts }

\* ------------------------------------------------------------------- state
VARIABLES
    tracts_3347,        \* the tract frame of the city
    golf_points_3347,   \* the reference frame of the last exposure computation
    exposure_df,        \* its result; <<>> before the first one
    w_cache,            \* fit_metric_spatial_lag_values._w_cache
    fit,                \* the last call of fit_metric_spatial_lag_values
    nfits,              \* calls made so far
    pc,                 \* build_all_maps.main: "main", "metrics" (in build_assets), "done"
    city,               \* position in targets (0 before the first city)
    queue,              \* metrics that the running build_assets has yet to process
    index,              \* index["categories"] of the running build_assets
    files,              \* the web_assets directory of the city being built
    built,              \* cities whose build_assets returned
    written,            \* what the last iteration of the metric loop serialized
    failures,           \* main's failures list
    prev_exposure,      \* the exposure before a reference was added inside a tract
    added,              \* the row of that tract; 0 when none was added
    lag_failed,         \* metrics of the running build whose lag computation raised
    gdf,                \* vancouver_moran_map.py: the frame and the script's position
    norm,               \* a value and what the two _normalize_ctuid make of it
    w_seen,             \* per unit list, the neighbors of the first weights a call had for it
    index_html,         \* maps/index.html; None while the file does not exist
    runner,             \* censusMapRunner / dataSiteRunner: the loop over cities
    cacher              \* census_cacher: a city's cache directory and the calls made

api_vars == <<tracts_3347, golf_points_3347, exposure_df, w_cache, fit, nfits>>
build_vars == <<pc, city, queue, index, files, built, written, failures, lag_failed>>
add_vars == <<prev_exposure, added>>
moran_vars == <<gdf>>
norm_vars == <<norm>>
hist_vars == <<w_seen>>
tool_vars == <<index_html, runner, cacher>>
vars == <<tracts_3347, golf_points_3347, exposure_df, w_cache, fit, nfits,
          pc, city, queue, index, files, built, written, failures, lag_failed,
          prev_exposure, added, gdf, norm, w_seen, index_html, runner, cacher>>

\* vancouver_moran_map.py before its model is fitted
Loaded == [step |-> "loaded"]

\* the runner scripts before main() is entered
RunnerIdle == [pc |-> "idle"]

\* census_cacher before build_city_cache_json is called
CacherFresh == [files |-> {}, wrote |-> {}, calls |-> 0, last |-> None]

\* a value that no _normalize_ctuid was called on yet
NotCalled(x) == [x |-> x, lag |-> None, build |-> None]

\* nothing serialized yet
NoWrite == [plain |-> <<>>, stats |-> None, lag |-> None, lagStats |-> None]

InitBuild ==
    /\ tracts_3347 = <<>>
    /\ golf_points_3347 = None
    /\ exposure_df = <<>>
    /\ w_cache = <<>>
    /\ fit = NoFit
    /\ nfits = 0
    /\ pc = "main"
    /\ city = 0
    /\ queue = <<>>
    /\ index = <<>>
    /\ files = {}
    /\ built = {}
    /\ written = NoWrite
    /\ failures = <<>>
    /\ lag_failed = {}
    /\ prev_exposure = <<>>
    /\ added = 0
    /\ gdf = Loaded
    /\ norm = NotCalled(<<>>)
    /\ w_seen = <<>>
    /\ index_html = None
    /\ runner = RunnerIdle
    /\ cacher = CacherFresh

\* The functions called directly on one city's tract frame.
Init ==
    /\ tracts_3347 = TractFrame
    /\ golf_points_3347 = None
    /\ exposure_df = <<>>
    /\ w_cache = <<>>
    /\ fit = NoFit
    /\ nfits = 0
    /\ pc = "main"
    /\ city = 0
    /\ queue = <<>>
    /\ index = <<>>
    /\ files = {}
    /\ built = {}
    /\ written = NoWrite
    /\ failures = <<>>
    /\ lag_failed = {}
    /\ prev_exposure = <<>>
    /\ added = 0
    /\ gdf = Loaded
    /\ norm = NotCalled(<<>>)
    /\ w_seen = <<>>
    /\ index_html = None
    /\ runner = RunnerIdle
    /\ cacher = CacherFresh

\* tr_norm / exp_norm: the frame with its CTUID column normalized
NormalizedIds(frame) ==
    [i \in 1..Len(frame) |-> [frame[i] EXCEPT !.CTUID = normalize_ctuid(@)]]

\* Variant: the column is assigned on the caller's frame itself.
CallerFrame_Assigned(frame, assigned) == assigned

\* x = frame.copy(); x['CTUID'] = ...: the caller's frame after the assignment
\* to the copy
CallerFrame(frame, assigned) == frame

\* The unit list of a call (the CTUID column of sub, in order) and, the first
\* time a call on that list has a weights object, its neighbors.
Seen(seen, f) ==
    LET units == [i \in 1..Len(f.sub) |-> f.sub[i].CTUID]
    IN  IF f.w = None \/ units \in DOMAIN seen THEN seen
        ELSE (units :> f.w.neighbors) @@ seen

\* exposure_df = compute_exposure_features(tracts_3347, golf)
ComputeExposure ==
    /\ fit.status = "none"
    /\ \E golf \in GolfFrames :
        /\ golf_points_3347' = golf
        /\ exposure_df' = compute_exposure_features(tracts_3347, golf)
    /\ UNCHANGED <<tracts_3347, w_cache, fit, nfits>>
    /\ UNCHANGED <<build_vars, add_vars, moran_vars, norm_vars, hist_vars, tool_vars>>

\* fit_metric_spatial_lag_values(tracts_3347, exposure_df, values)
Fit ==
    /\ fit.status = "none"
    /\ exposure_df # <<>>
    /\ nfits < MaxFits
    /\ \E values \in ValueMaps :
         \E p \in {FitPrepare(tracts_3347, exposure_df, values)} :
           \E env \in LibraryOutcomes :
             \E r \in {FitFinish(p, w_cache, env)} :
               /\ fit' = r.fit
               /\ w_cache' = r.cache
               /\ w_seen' = Seen(w_seen, r.fit)
    /\ nfits' = nfits + 1
    /\ tracts_3347' = CallerFrame(tracts_3347, NormalizedIds(tracts_3347))
    /\ exposure_df' = CallerFrame(exposure_df, NormalizedIds(exposure_df))
    /\ UNCHANGED golf_points_3347
    /\ UNCHANGED <<build_vars, add_vars, moran_vars, norm_vars, tool_vars>>

\* The caller is done with what the call returned (or with its exception).
Consume ==
    /\ fit.status # "none"
    /\ fit' = NoFit
    /\ UNCHANGED <<tracts_3347, golf_points_3347, exposure_df, w_cache, nfits>>
    /\ UNCHANGED <<build_vars, add_vars, moran_vars, norm_vars, hist_vars, tool_vars>>

Next == ComputeExposure \/ Fit \/ Consume

Spec == Init /\ [][Next]_vars

\* ------------------------------------------------------- float arithmetic
\* IEEE-754 arithmetic on the tagged floats; finite numbers are exact rationals
\* with a positive denominator, kept in lowest terms.
RECURSIVE Gcd(_, _)
Gcd(a, b) == IF b = 0 THEN a ELSE Gcd(b, a % b)
Reduce(n, d) ==
    LET g == Gcd(Abs(n), d) IN IF g = 0 THEN Num(0, 1) ELSE Num(n \div g, d \div g)

FNeg(a) ==
    IF a.kind = "num" THEN Num(-a.num, a.den)
    ELSE IF a.kind = "inf" THEN NegInf
    ELSE IF a.kind = "-inf" THEN PosInf
    ELSE NaN
FAdd(a, b) ==
    IF a.kind = "nan" \/ b.kind = "nan" THEN NaN
    ELSE IF a.kind = "num" /\ b.kind = "num"
    THEN Reduce(a.num * b.den + b.num * a.den, a.den * b.den)
    ELSE IF a.kind = "num" THEN b
    ELSE IF b.kind = "num" THEN a
    ELSE IF a.kind = b.kind THEN a
    ELSE NaN                                   \* inf + -inf
FSub(a, b) == FAdd(a, FNeg(b))
FSign(a) ==
    IF a.kind = "inf" THEN 1
    ELSE IF a.kind = "-inf" THEN -1
    ELSE IF a.num > 0 THEN 1 ELSE IF a.num < 0 THEN -1 ELSE 0
FMul(a, b) ==
    IF a.kind = "nan" \/ b.kind = "nan" THEN NaN
    ELSE IF a.kind = "num" /\ b.kind = "num" THEN Reduce(a.num * b.num, a.den * b.den)
    ELSE IF FSign(a) * FSign(b) = 0 THEN NaN   \* inf * 0
    ELSE IF FSign(a) * FSign(b) > 0 THEN PosInf
    ELSE NegInf
\* a < b, FALSE when either is NaN
FLess(a, b) ==
    IF a.kind = "nan" \/ b.kind = "nan" THEN FALSE
    ELSE IF a.kind = "num" /\ b.kind = "num" THEN a.num * b.den < b.num * a.den
    ELSE IF a.kind = b.kind THEN FALSE
    ELSE a.kind = "-inf" \/ b.kind = "inf"
FGeq(a, b) ==
    IF a.kind = "nan" \/ b.kind = "nan" THEN FALSE ELSE ~FLess(a, b)

\* ------------------------------------------------------------- summaries
\* Series.sort_values of floats without NaN
RECURSIVE FInsert(_, _)
FInsert(x, s) ==
    IF s = <<>> THEN <<x>>
    ELSE IF FLess(x, Head(s)) THEN <<x>> \o s
    ELSE <<Head(s)>> \o FInsert(x, Tail(s))
RECURSIVE FSorted(_)
FSorted(s) == IF s = <<>> THEN <<>> ELSE FInsert(Head(s), FSorted(Tail(s)))

RECURSIVE FSum(_)
FSum(s) == IF s = <<>> THEN Num(0, 1) ELSE FAdd(Head(s), FSum(Tail(s)))

\* numpy's linear interpolation between a and b at t in [0, 1)
Lerp(a, b, t) ==
    IF FGeq(t, Num(1, 2))
    THEN FSub(b, FMul(FSub(b, a), FSub(Num(1, 1), t)))
    ELSE FAdd(a, FMul(FSub(b, a), t))

\* Series.quantile(qn / qd) of the sorted values, linear interpolation
Quantile(srt, qn, qd) ==
    LET n == Len(srt)
        lo == ((n - 1) * qn) \div qd
        hi == IF lo + 1 > n - 1 THEN n - 1 ELSE lo + 1
    IN Lerp(srt[lo + 1], srt[hi + 1], Reduce(((n - 1) * qn) % qd, qd))

\* the statistics of a non-empty list of floats without NaN
Describe(clean) ==
    LET srt == FSorted(clean)
    IN [count |-> Len(clean),
        min  |-> srt[1],
        max  |-> srt[Len(srt)],
        mean |-> FMul(FSum(clean), Num(1, Len(clean))),
        p10  |-> Quantile(srt, 1, 10),
        p25  |-> Quantile(srt, 1, 4),
        p50  |-> Quantile(srt, 1, 2),
        p75  |-> Quantile(srt, 3, 4),
        p90  |-> Quantile(srt, 9, 10)]

\* interactive_map_builder.summarize_metric: None and NaN are left out
summarize_metric(values) ==
    LET clean == SelectSeq(values, LAMBDA v : v # None /\ v.kind # "nan")
    IN IF clean = <<>> THEN [count |-> 0] ELSE Describe(clean)

\* spatial_lag_assets.summarize: +Inf and -Inf become NaN, NaN is dropped
summarize(values) ==
    LET arr == SelectSeq(values, LAMBDA v : v.kind = "num")
    IN IF arr = <<>> THEN [count |-> 0] ELSE Describe(arr)

\* list(ct_values.values())
RECURSIVE ValuesList(_)
ValuesList(ct_values) ==
    IF DOMAIN ct_values = {} THEN <<>>
    ELSE LET k == CHOOSE x \in DOMAIN ct_values :
                    \A z \in DOMAIN ct_values : ~StrLess(z, x)
         IN <<ct_values[k]>> \o
            ValuesList([x \in (DOMAIN ct_values) \ {k} |-> ct_values[x]])

\* "sanitize NaN/inf -> null" of a value
sanitize(v) == IF v.kind \in {"nan", "inf", "-inf"} THEN None ELSE v

\* the content of <metric_slug>.json
Sanitized(ct_values) == [k \in DOMAIN ct_values |-> sanitize(ct_values[k])]

\* ------------------------------------------- build_assets and the batch driver
\* The categories of a city's profile cache: the first holds the larger half
\* of the NumMetrics metrics, the second the rest.
Categories == <<"Income", "Housing">>

\* categories.items() and metric_map.items() flattened in iteration order
CityMetrics ==
    [k \in 1..NumMetrics |->
        [category |-> Categories[IF 2 * k <= NumMetrics + 1 THEN 1 ELSE 2],
         metric   |-> k]]

\* The tract frame of city c: the fixture polygons with the city's CTUIDs.
CityTractFrame(c) ==
    [i \in 1..NumTracts |-> [CTUID |-> <<Digit(c)>> \o RawId(i), geometry |-> Box(i)]]

\* ct_values of a metric of the profile cache of a city with this tract frame:
\* a finite value for every tract, or NaN for the first one, or +Inf for the
\* second and -Inf for the third
ProfileMetrics(frame) ==
    { AllValues(frame),
      WithValue(frame, 1, NaN),
      [WithValue(frame, 2, PosInf) EXCEPT ![normalize_ctuid(frame[3].CTUID)] = NegInf] }

\* golf_pts of build_assets: no courses loaded, or the candidates within the
\* city buffer
BuildGolfFrames == {None, [kind |-> "frame", rows |-> GolfCandidates]}

\* exposure_df of build_assets: the NaN frame unless courses were loaded and
\* some lie within the city buffer
BuildExposure(tracts, golf_pts) ==
    IF golf_pts.kind # "None" /\ golf_pts.rows # <<>>
    THEN compute_exposure_features(tracts, golf_pts)
    ELSE EmptyExposure(tracts)

\* For each city and each golf_pts, what the metric loop computes from a
\* metric's ct_values alone: the statistics, the sanitized values and the first
\* half of the lag fit.
PreparedMetrics ==
    [c \in 1..NumCities |->
      [g \in BuildGolfFrames |->
        { [ct_values |-> v,
           stats |-> summarize_metric(ValuesList(v)),
           sanitized |-> Sanitized(v),
           p |-> FitPrepare(CityTractFrame(c), BuildExposure(CityTractFrame(c), g), v)] :
          v \in ProfileMetrics(CityTractFrame(c)) }]]

\* a written file; content is kept for metrics_index.json only
File(slug, kind, content) == [slug |-> slug, kind |-> kind, content |-> content]
MetricSlug(m) == <<m.category, m.metric>>

\* The floats of a lag series of n rows, as numpy computed them: finite
\* z-scores, or NaN, +Inf and -Inf among them.
ZPatterns(n) ==
    { [i \in 1..n |-> Num(2 * i - n - 1, 1)],
      [i \in 1..n |-> IF i = 1 THEN NaN
                      ELSE IF i = 2 THEN PosInf
                      ELSE IF i = n THEN NegInf ELSE Num(i, 1)] }

\* What the libraries do during a build: the fit succeeds, Queen or ML_Lag
\* raises, or there are no fitted values and lstsq raises.
BuildLibraryOutcomes ==
    { env \in LibraryOutcomes :
        /\ env.imports
        /\ \/ env.queen = "raise"
           \/ env.ml \in {"predy", "raise"}
           \/ env.ml = "none" /\ env.lstsq = "raise" }

\* lag_map: the series as a dict, non-finite values replaced by None
LagMap(series, z) ==
    [id \in Range(series.index) |->
        sanitize(z[CHOOSE i \in 1..Len(z) : series.index[i] = id])]

\* [vv for vv in lag_map.values() if vv is not None]
LagMapValues(series, z) == SelectSeq([i \in 1..Len(z) |-> sanitize(z[i])], LAMBDA v : v # None)

\* "if lag_series is not None and not lag_series.empty"
HasLagSeries(r) == r.status = "returned" /\ r.out # None /\ r.out.index # <<>>

\* Variant: no handler around the lag computation.
LagExceptionPropagates_NoHandler(raised) == raised
\* "except Exception as e: ... pass" around the lag computation of a metric
LagExceptionPropagates(raised) == FALSE

\* "except Exception as e: ... failures.append(...)" around build_assets in main
BuildExceptionStopsBatch(raised) == FALSE

\* main takes the next city and build_assets runs up to the metric loop: the
\* loads may raise; otherwise tracts.geojson is written and the exposure computed.
StartCity ==
    /\ pc = "main"
    /\ city < NumCities
    /\ city' = city + 1
    /\ \/ /\ failures' = Append(failures, city + 1)
          /\ pc' = IF BuildExceptionStopsBatch(TRUE) THEN "aborted" ELSE "main"
          /\ files' = {}
          /\ lag_failed' = {}
          /\ written' = NoWrite
          /\ UNCHANGED <<tracts_3347, golf_points_3347, exposure_df, queue, index>>
       \/ \E golf_pts \in BuildGolfFrames :
          /\ tracts_3347' = CityTractFrame(city + 1)
          /\ golf_points_3347' = golf_pts
          /\ exposure_df' = BuildExposure(CityTractFrame(city + 1), golf_pts)
          /\ queue' = CityMetrics
          /\ index' = <<>>
          /\ files' = {File(<<>>, "tracts.geojson", <<>>)}
          /\ lag_failed' = {}
          /\ written' = NoWrite
          /\ pc' = "metrics"
          /\ UNCHANGED failures
    /\ UNCHANGED <<w_cache, fit, nfits, built, add_vars, moran_vars, norm_vars, hist_vars, tool_vars>>

\* cat_entry with the metric entry appended, in index["categories"]
AppendMetric(idx, m, entry) ==
    IF idx # <<>> /\ idx[Len(idx)].category = m.category
    THEN [idx EXCEPT ![Len(idx)].metrics = Append(@, entry)]
    ELSE Append(idx, [category |-> m.category, metrics |-> <<entry>>])

\* One iteration of the metric loop: the index entry, the plain value file, then
\* the lag variant inside try/except.
MetricStep ==
    /\ pc = "metrics"
    /\ queue # <<>>
    /\ \E inp \in PreparedMetrics[city][golf_points_3347] :
           \E env \in BuildLibraryOutcomes :
             \E r \in {FitFinish(inp.p, w_cache, env)} :
              \E z \in (IF HasLagSeries(r.fit) THEN ZPatterns(Len(r.fit.out.index))
                                               ELSE {<<>>}) :
               LET m      == Head(queue)
                   raised == r.fit.status = "raised"
                   entry  == [name |-> m.metric, slug |-> MetricSlug(m),
                              lagStats |-> HasLagSeries(r.fit)]
                   plain  == {File(MetricSlug(m), ".json", <<>>)}
                   lag    == IF HasLagSeries(r.fit)
                             THEN {File(MetricSlug(m), "__lag.json", <<>>),
                                   File(MetricSlug(m), "__lag_skip.json", <<>>)}
                             ELSE {}
               IN /\ w_cache' = r.cache
                  /\ files' = files \cup plain \cup lag
                  /\ written' =
                       [plain |-> inp.sanitized,
                        stats |-> inp.stats,
                        lag |-> IF HasLagSeries(r.fit) THEN LagMap(r.fit.out, z) ELSE None,
                        lagStats |-> IF HasLagSeries(r.fit)
                                     THEN summarize(LagMapValues(r.fit.out, z))
                                     ELSE None]
                  /\ index' = AppendMetric(index, m, entry)
                  /\ lag_failed' = IF raised
                                   THEN lag_failed \cup {MetricSlug(m)}
                                   ELSE lag_failed
                  /\ IF LagExceptionPropagates(raised)
                     THEN /\ queue' = <<>>
                          /\ failures' = Append(failures, city)
                          /\ pc' = IF BuildExceptionStopsBatch(TRUE) THEN "aborted" ELSE "main"
                     ELSE /\ queue' = Tail(queue)
                          /\ UNCHANGED <<failures, pc>>
    /\ UNCHANGED <<tracts_3347, golf_points_3347, exposure_df, fit, nfits, city, built,
                   add_vars, moran_vars, norm_vars, hist_vars, tool_vars>>

\* After the loop: metrics_index.json and the page are written and build_assets
\* returns to main.
FinishCity ==
    /\ pc = "metrics"
    /\ queue = <<>>
    /\ files' = files \cup {File(<<>>, "metrics_index.json", index),
                            File(<<>>, "interactive_map.html", <<>>)}
    /\ built' = built \cup {city}
    /\ pc' = "main"
    /\ UNCHANGED <<tracts_3347, golf_points_3347, exposure_df, w_cache, fit, nfits,
                   city, queue, index, written, failures, lag_failed, add_vars, moran_vars, norm_vars, hist_vars, tool_vars>>

\* "Batch build complete."
FinishBatch ==
    /\ pc = "main"
    /\ city = NumCities
    /\ pc' = "done"
    /\ UNCHANGED <<tracts_3347, golf_points_3347, exposure_df, w_cache, fit, nfits,
                   city, queue, index, files, built, written, failures, lag_failed, add_vars, moran_vars, norm_vars, hist_vars, tool_vars>>

NextBuild == StartCity \/ MetricStep \/ FinishCity \/ FinishBatch

SpecBuild == InitBuild /\ [][NextBuild]_vars

\* ------------------------------------------- exposure of growing golf frames
\* Golf courses far from the city: exactly max_distance_km north of the
\* representative point of tract 1, and three times as far.
GolfAtCap == <<CellM \div 2, CellM \div 2 + max_distance_km * distance_unit_m>>
GolfFar == <<CellM \div 2, CellM \div 2 + 3 * max_distance_km * distance_unit_m>>

ExposureGolfFrames ==
    GolfFrames \cup { [kind |-> "frame", rows |-> r] : r \in {<<GolfAtCap>>, <<GolfFar>>} }

\* a point strictly inside the polygon of tract i, off its representative point
InsidePoint(tracts, i) ==
    LET g == tracts[i].geometry
    IN <<g.xmin + (g.xmax - g.xmin) \div 4, g.ymin + (g.ymax - g.ymin) \div 4>>

\* golf_points_3347 with one more row
WithReference(golf, pt) ==
    [kind |-> "frame", rows |-> (IF golf.kind = "None" THEN <<>> ELSE golf.rows) \o <<pt>>]

\* exposure_df = compute_exposure_features(tracts_3347, golf)
ExposureOf ==
    /\ \E golf \in ExposureGolfFrames :
        /\ golf_points_3347' = golf
        /\ exposure_df' = compute_exposure_features(tracts_3347, golf)
    /\ prev_exposure' = <<>>
    /\ added' = 0
    /\ UNCHANGED <<tracts_3347, w_cache, fit, nfits, build_vars, moran_vars, norm_vars, hist_vars, tool_vars>>

\* the same call again, after a course strictly inside tract i joined the frame
ExposureWithAdded ==
    /\ exposure_df # <<>>
    /\ IF golf_points_3347.kind = "None" THEN TRUE
       ELSE Len(golf_points_3347.rows) < MaxRefs
    /\ \E i \in 1..Len(tracts_3347) :
        \E golf \in {WithReference(golf_points_3347, InsidePoint(tracts_3347, i))} :
          /\ golf_points_3347' = golf
          /\ exposure_df' = compute_exposure_features(tracts_3347, golf)
          /\ prev_exposure' = exposure_df
          /\ added' = i
    /\ UNCHANGED <<tracts_3347, w_cache, fit, nfits, build_vars, moran_vars, norm_vars, hist_vars, tool_vars>>

NextExposure == ExposureOf \/ ExposureWithAdded

SpecExposure == Init /\ [][NextExposure]_vars

\* ------------------------------------------------------ a 3 x 3 grid of tracts
\* Nine square tracts, rows of three; tract 5 is the centre.
GridBox(i) == [xmin |-> ((i - 1) % 3) * CellM, xmax |-> (((i - 1) % 3) + 1) * CellM,
               ymin |-> ((i - 1) \div 3) * CellM, ymax |-> (((i - 1) \div 3) + 1) * CellM]
GridFrame == [i \in 1..9 |-> [CTUID |-> RawId(i), geometry |-> GridBox(i)]]
GridCentre == representative_point(GridBox(5))

\* no courses, one at the centre tract's representative point, one at the
\* first corner tract's, or both
GridGolfFrames ==
    {None}
    \cup { [kind |-> "frame", rows |-> r] :
             r \in { <<GridCentre>>, <<representative_point(GridBox(1))>>,
                     <<GridCentre, representative_point(GridBox(1))>> } }

\* values_by_ctuid on the grid: every tract, or without the centre, or NaN for
\* the first corner
GridValueMaps ==
    {AllValues(GridFrame), WithoutTract(GridFrame, 5), WithValue(GridFrame, 1, NaN)}

InitGrid ==
    /\ tracts_3347 = GridFrame
    /\ golf_points_3347 = None
    /\ exposure_df = <<>>
    /\ w_cache = <<>>
    /\ fit = NoFit
    /\ nfits = 0
    /\ pc = "main"
    /\ city = 0
    /\ queue = <<>>
    /\ index = <<>>
    /\ files = {}
    /\ built = {}
    /\ written = NoWrite
    /\ failures = <<>>
    /\ lag_failed = {}
    /\ prev_exposure = <<>>
    /\ added = 0
    /\ gdf = Loaded
    /\ norm = NotCalled(<<>>)
    /\ w_seen = <<>>
    /\ index_html = None
    /\ runner = RunnerIdle
    /\ cacher = CacherFresh

GridExposure ==
    /\ fit.status = "none"
    /\ \E golf \in GridGolfFrames :
        /\ golf_points_3347' = golf
        /\ exposure_df' = compute_exposure_features(tracts_3347, golf)
    /\ UNCHANGED <<tracts_3347, w_cache, fit, nfits, build_vars, add_vars, moran_vars, norm_vars, hist_vars, tool_vars>>

GridFit ==
    /\ fit.status = "none"
    /\ exposure_df # <<>>
    /\ nfits < MaxFits
    /\ \E values \in GridValueMaps :
         \E p \in {FitPrepare(tracts_3347, exposure_df, values)} :
           \E env \in LibraryOutcomes :
             \E r \in {FitFinish(p, w_cache, env)} :
               /\ fit' = r.fit
               /\ w_cache' = r.cache
               /\ w_seen' = Seen(w_seen, r.fit)
    /\ nfits' = nfits + 1
    /\ tracts_3347' = CallerFrame(tracts_3347, NormalizedIds(tracts_3347))
    /\ exposure_df' = CallerFrame(exposure_df, NormalizedIds(exposure_df))
    /\ UNCHANGED <<golf_points_3347, build_vars, add_vars, moran_vars, norm_vars, tool_vars>>

NextGrid == GridExposure \/ GridFit \/ Consume

SpecGrid == InitGrid /\ [][NextGrid]_vars

\* ---------------------------------------------------- vancouver_moran_map.py
\* The script runs on the nine tracts of the grid: w is their row-standardized
\* Queen weights object.
MoranFrame == GridFrame
MoranW == BuildWeights(MoranFrame)

\* gdf["residual"] in whole units: the same everywhere, one tract apart from
\* the others, two adjacent tracts apart from the others, alternating, or
\* growing with the column
Residuals ==
    { [i \in 1..Len(MoranFrame) |-> a] : a \in 0..MaxResid }
    \cup { [i \in 1..Len(MoranFrame) |-> IF i = u THEN a ELSE 0] :
             u \in 1..Len(MoranFrame), a \in (-MaxResid..MaxResid) \ {0} }
    \cup { [i \in 1..Len(MoranFrame) |-> IF i \in {1, 2} THEN a ELSE 0] : a \in 1..MaxResid }
    \cup { [i \in 1..Len(MoranFrame) |-> IF i % 2 = 1 THEN a ELSE -a] : a \in 1..MaxResid }
    \cup { [i \in 1..Len(MoranFrame) |-> a * ((i - 1) % 3)] : a \in 1..MaxResid }

RECURSIVE IntSum(_)
IntSum(s) == IF s = <<>> THEN 0 ELSE Head(s) + IntSum(Tail(s))

\* the number num / sqrt(sq), sq a positive rational
Scaled(num, sq) == [kind |-> "scaled", num |-> num, sq |-> sq]

\* (residual - residual.mean()) / residual.std(): with n rows, sum S and
\* SS = sum of (n * r - S)^2 the sample standard deviation is
\* sqrt(SS / (n - 1)) / n, and entry i is (n * r[i] - S) / sqrt(SS / (n - 1));
\* a standard deviation of 0 gives 0.0 / 0.0 = NaN in every row
Standardized(r) ==
    LET n == Len(r)
        S == IntSum(r)
        dev == [i \in 1..n |-> n * r[i] - S]
        SS == IntSum([i \in 1..n |-> dev[i] * dev[i]])
    IN  [i \in 1..n |-> IF SS = 0 THEN NaN ELSE Scaled(dev[i], Reduce(SS, n - 1))]

\* the sign of a value, 0 for zero; NaN has none
Sign(v) ==
    IF v.kind = "nan" THEN NaN
    ELSE IF v.num > 0 THEN Num(1, 1) ELSE IF v.num < 0 THEN Num(-1, 1) ELSE Num(0, 1)

\* the sign of libpysal's lag_spatial(w, z)[i]: all weights of row i are the
\* same positive number and all z share the scale
LagSign(w, z, i) ==
    IF \E j \in w.neighbors[i] : z[j].kind = "nan" THEN NaN
    ELSE LET nb == w.neighbors[i]
             t == IntSum([k \in 1..w.n |-> IF k \in nb THEN z[k].num ELSE 0])
         IN  IF t > 0 THEN Num(1, 1) ELSE IF t < 0 THEN Num(-1, 1) ELSE Num(0, 1)

\* esda Moran_Local.q: 1 HH, 2 LH, 3 LL, 4 HL from z > 0 and lag > 0
\* (comparisons with NaN are False)
Quadrant(zs, ls) ==
    LET zp == FLess(Num(0, 1), zs)
        lp == FLess(Num(0, 1), ls)
    IN  IF zp /\ lp THEN 1 ELSE IF ~zp /\ lp THEN 2 ELSE IF ~zp /\ ~lp THEN 3 ELSE 4

\* moran_loc.p_sim is (larger + 1) / (permutations + 1): levels on both sides
\* of alpha and on it
PLevels == <<Reduce(1, 1000), Reduce(49, 1000), Reduce(50, 1000), Reduce(51, 1000),
             Reduce(1, 2)>>

\* p_sim of the nine units: one level everywhere, or the levels in turn
PPatterns(n) ==
    { [i \in 1..n |-> PLevels[k]] : k \in {1, Len(PLevels)} }
    \cup { [i \in 1..n |-> PLevels[((i + s) % Len(PLevels)) + 1]] : s \in 1..Len(PLevels) }

\* cluster_label's default alpha
alpha == Reduce(5, 100)

\* Variant: the label taken from the quadrant alone.
cluster_label_NoAlpha(p, q) ==
    IF q = 1 THEN "HH" ELSE IF q = 2 THEN "LH" ELSE IF q = 3 THEN "LL"
    ELSE IF q = 4 THEN "HL" ELSE "NotSig"

\* Variant: quadrants 2 and 4 exchanged.
cluster_label_Exchanged(p, q) ==
    IF FGeq(p, alpha) THEN "NotSig"
    ELSE IF q = 1 THEN "HH" ELSE IF q = 2 THEN "HL" ELSE IF q = 3 THEN "LL"
    ELSE IF q = 4 THEN "LH" ELSE "NotSig"

cluster_label(p, q) ==
    IF FGeq(p, alpha) THEN "NotSig"
    ELSE IF q = 1 THEN "HH" ELSE IF q = 2 THEN "LH" ELSE IF q = 3 THEN "LL"
    ELSE IF q = 4 THEN "HL" ELSE "NotSig"

\* lines 62-64: predictions, residuals and standardized residuals
Standardize ==
    /\ gdf.step = "loaded"
    /\ \E r \in Residuals :
         gdf' = [step |-> "standardized", residual |-> r, resid_std |-> Standardized(r)]
    /\ UNCHANGED <<api_vars, build_vars, add_vars, norm_vars, hist_vars, tool_vars>>

\* lines 74-79: Moran_Local(res, w); p_sim is the library's
MoranLocal ==
    /\ gdf.step = "standardized"
    /\ \E p \in PPatterns(Len(gdf.resid_std)) :
         gdf' = [step |-> "moran", residual |-> gdf.residual, resid_std |-> gdf.resid_std,
                 local_p |-> p,
                 local_q |-> [i \in 1..Len(gdf.resid_std) |->
                                Quadrant(Sign(gdf.resid_std[i]),
                                         LagSign(MoranW, gdf.resid_std, i))]]
    /\ UNCHANGED <<api_vars, build_vars, add_vars, norm_vars, hist_vars, tool_vars>>

\* lines 95-97: gdf["cluster"]
Label ==
    /\ gdf.step = "moran"
    /\ gdf' = [step |-> "labelled", residual |-> gdf.residual, resid_std |-> gdf.resid_std,
               local_p |-> gdf.local_p, local_q |-> gdf.local_q,
               cluster |-> [i \in 1..Len(gdf.local_p) |->
                              cluster_label(gdf.local_p[i], gdf.local_q[i])]]
    /\ UNCHANGED <<api_vars, build_vars, add_vars, norm_vars, hist_vars, tool_vars>>

NextMoran == Standardize \/ MoranLocal \/ Label

SpecMoran == Init /\ [][NextMoran]_vars

\* ------------------------------------------------- the two _normalize_ctuid
\* Values given to _normalize_ctuid: strings of digits and dots, and integers.
IdAlphabet == {"0", "1", "."}
RECURSIVE StringsUpTo(_)
StringsUpTo(n) ==
    IF n = 0 THEN {<<>>}
    ELSE StringsUpTo(n - 1)
         \cup {Append(t, c) : t \in {u \in StringsUpTo(n - 1) : Len(u) = n - 1}, c \in IdAlphabet}
CtuidInputs ==
    { [kind |-> "str", s |-> t] : t \in StringsUpTo(MaxIdLen) }
    \cup { [kind |-> "int", n |-> k] : k \in {0, 10, 100, 1010} }

\* str(x)
Str(x) == IF x.kind = "int" THEN DecStr(x.n) ELSE x.s

\* s.split('.', 1) of a string that holds a '.'
Split1(s) ==
    LET d == CHOOSE i \in 1..Len(s) : s[i] = "." /\ \A j \in 1..(i - 1) : s[j] # "."
    IN  <<SubSeq(s, 1, d - 1), SubSeq(s, d + 1, Len(s))>>

\* Variant: one trailing zero removed from the part after the dot.
normalize_ctuid_StripOne(x) ==
    LET s == Str(x)
    IN  IF "." \in Range(s)
        THEN LET left == Split1(s)[1]
                 right == Split1(s)[2]
                 cut == IF right # <<>> /\ right[Len(right)] = "0"
                        THEN SubSeq(right, 1, Len(right) - 1) ELSE right
             IN  left \o <<".">> \o (IF cut = <<>> THEN <<"0">> ELSE cut)
        ELSE s

\* interactive_map_builder.build_assets._normalize_ctuid
normalize_ctuid_build_assets(x) ==
    LET s == Str(x)
    IN  IF "." \in Range(s)
        THEN LET left == Split1(s)[1]
                 right == rstrip0(Split1(s)[2])
             IN  left \o <<".">> \o (IF right = <<>> THEN <<"0">> ELSE right)
        ELSE s

\* spatial_lag_assets._normalize_ctuid of any value
normalize_ctuid_of(x) == normalize_ctuid(Str(x))

\* a result as the value of a later call
AsStr(t) == [kind |-> "str", s |-> t]

InitNormalize ==
    /\ tracts_3347 = TractFrame
    /\ golf_points_3347 = None
    /\ exposure_df = <<>>
    /\ w_cache = <<>>
    /\ fit = NoFit
    /\ nfits = 0
    /\ pc = "main"
    /\ city = 0
    /\ queue = <<>>
    /\ index = <<>>
    /\ files = {}
    /\ built = {}
    /\ written = NoWrite
    /\ failures = <<>>
    /\ lag_failed = {}
    /\ prev_exposure = <<>>
    /\ added = 0
    /\ gdf = Loaded
    /\ norm \in {NotCalled(x) : x \in CtuidInputs}
    /\ w_seen = <<>>
    /\ index_html = None
    /\ runner = RunnerIdle
    /\ cacher = CacherFresh

\* spatial_lag_assets._normalize_ctuid(x), and again on its result
NormalizeLag ==
    /\ norm.lag = None
    /\ norm' = [norm EXCEPT !.lag =
                   [once |-> normalize_ctuid_of(norm.x),
                    twice |-> normalize_ctuid_of(AsStr(normalize_ctuid_of(norm.x)))]]
    /\ UNCHANGED <<api_vars, build_vars, add_vars, moran_vars, hist_vars, tool_vars>>

\* build_assets' _normalize_ctuid(x), and again on its result
NormalizeBuild ==
    /\ norm.build = None
    /\ norm' = [norm EXCEPT !.build =
                   [once |-> normalize_ctuid_build_assets(norm.x),
                    twice |-> normalize_ctuid_build_assets(
                                 AsStr(normalize_ctuid_build_assets(norm.x)))]]
    /\ UNCHANGED <<api_vars, build_vars, add_vars, moran_vars, hist_vars, tool_vars>>

NextNormalize == NormalizeLag \/ NormalizeBuild

SpecNormalize == InitNormalize /\ [][NextNormalize]_vars

\* ------------------------------------- dataSiteRunner.apply_index_enhancements
\* index.html is a sequence of pieces of text.  A piece is a tag or a run of
\* characters that every pattern of the function either contains whole or does
\* not touch; an <a> element with its content is one piece.
Piece(t) == [tag |-> t, href |-> "", label |-> ""]
Anchor(href, label) == [tag |-> "a", href |-> href, label |-> label]
H2(title) == [tag |-> "h2", href |-> "", label |-> title]
NL == Piece("\n")
Indent == Piece("  ")
Main == Piece("<main>")
MainEnd == Piece("</main>")
Grid == Piece("<div id='grid' class='grid'>")
ClassGrid == Piece("<div class='grid'>")
DivEnd == Piece("</div>")
Empty == Piece("<div id='empty' class='empty' style='display:none'>No cities match your search.</div>")
MapsSection == Piece("<section style='margin-bottom:26px'>")
Section == Piece("<section>")
SectionEnd == Piece("</section>")
SearchAll == Piece("document.querySelectorAll('.city-btn').forEach(b=>{")
SearchGrid == Piece("document.querySelectorAll('#grid .city-btn').forEach(b=>{")
Amenities == "../visualize_city_amenities.html"
GolfVsDemographics == "../visualize_golf_vs_demographics.html"
GolfAnimation == "../visualize_golf_animation.html"
GolfAcrossCities == "../visualize_golf_courses_across_cities.html"

\* sub in html
RECURSIVE Contains(_, _)
Contains(html, sub) ==
    IF Len(html) < Len(sub) THEN FALSE
    ELSE SubSeq(html, 1, Len(sub)) = sub \/ Contains(Tail(html), sub)

\* html.replace(old, new)
RECURSIVE Replace(_, _, _)
Replace(html, old, new) ==
    IF Len(html) < Len(old) THEN html
    ELSE IF SubSeq(html, 1, Len(old)) = old
    THEN new \o Replace(SubSeq(html, Len(old) + 1, Len(html)), old, new)
    ELSE <<Head(html)>> \o Replace(Tail(html), old, new)

\* html.find(piece, start): the first position from start on, 0 for -1
Find(html, piece, start) ==
    IF \E i \in start..Len(html) : html[i] = piece
    THEN CHOOSE i \in start..Len(html) :
           html[i] = piece /\ \A j \in start..(i - 1) : html[j] # piece
    ELSE 0

\* a link to href occurs somewhere in html
HasLink(html, href) == \E i \in 1..Len(html) : html[i].tag = "a" /\ html[i].href = href

\* lines 133-145: wrap the main grid in a Maps section
WrapMaps(html) ==
    IF Contains(html, <<Grid>>)
       /\ ~\E i \in 1..Len(html) : html[i] \in {MapsSection, Section}
    THEN LET h1 == Replace(html, <<Main, Grid>>,
                           <<Main, NL, MapsSection, NL, H2("Maps"), NL, Grid>>)
             h2 == Replace(h1, <<DivEnd, Empty>>, <<DivEnd, NL, Empty>>)
         IN  Replace(h2, <<DivEnd, Empty, MainEnd>>,
                     <<DivEnd, Empty, SectionEnd, NL, MainEnd>>)
    ELSE html

\* line 148: re.sub removes every <a> element whose href is the dashboard's
RemoveDashboardLinks(html) ==
    SelectSeq(html, LAMBDA x : ~(x.tag = "a" /\ x.href = Amenities))

\* one link of a section: two spaces, the element, a newline
Link(href, label) == <<Indent, Anchor(href, label), NL>>

\* lines 152-170
visuals_section ==
    <<NL, Section, NL, H2("Visuals"), NL, ClassGrid, NL>>
    \o Link(Amenities, "City Amenities Dashboard")
    \o Link(GolfVsDemographics, "Golf vs Demographics")
    \o Link(GolfAnimation, "Golf Courses Animation")
    \o Link(GolfAcrossCities, "Golf Courses Across Cities")
    \o <<DivEnd, NL, SectionEnd, NL>>

\* lines 176-187 and their three repetitions: the link is put after the first
\* <div class='grid'> that follows the Visuals heading
EnsureLink(html, href, label) ==
    IF HasLink(html, href) THEN html
    ELSE LET head_idx == Find(html, H2("Visuals"), 1)
             grid_idx == IF head_idx = 0 THEN 0 ELSE Find(html, ClassGrid, head_idx)
         IN  IF grid_idx = 0 THEN html
             ELSE SubSeq(html, 1, grid_idx) \o <<NL>> \o Link(href, label)
                  \o SubSeq(html, grid_idx + 1, Len(html))

\* lines 151-229
EnsureVisuals(html) ==
    IF ~Contains(html, <<H2("Visuals")>>)
    THEN Replace(html, <<MainEnd>>, visuals_section \o <<MainEnd>>)
    ELSE EnsureLink(
           EnsureLink(
             EnsureLink(
               EnsureLink(html, Amenities, "City Amenities"),
               GolfVsDemographics, "Golf vs Demographics"),
             GolfAnimation, "Golf Courses Animation"),
           GolfAcrossCities, "Golf Courses Across Cities")

\* lines 233-245
data_section ==
    <<NL, Section, NL, H2("Data"), NL, ClassGrid, NL>>
    \o Link("../data/city_amenities.json", "Raw Amenities JSON")
    \o Link("../data/city_demographics.json", "City Demographics JSON")
    \o <<DivEnd, NL, SectionEnd, NL>>

\* lines 232-247
EnsureData(html) ==
    IF ~Contains(html, <<H2("Data")>>)
    THEN Replace(html, <<MainEnd>>, data_section \o <<MainEnd>>)
    ELSE html

\* lines 252-256
TargetMapsGrid(html) ==
    IF ~Contains(html, <<SearchGrid>>)
    THEN Replace(html, <<SearchAll>>, <<SearchGrid>>)
    ELSE html

\* the text that apply_index_enhancements writes back
EnhanceIndex(html) ==
    TargetMapsGrid(EnsureData(EnsureVisuals(RemoveDashboardLinks(WrapMaps(html)))))

\* generate_index.main: the page with n city buttons
CityLink(k) == Anchor(ToString(k) \o "_interactive_map.html", "city")
GeneratedIndex(n) ==
    <<Piece("<body>"), NL, Main, Grid, NL>>
    \o FlatMap([k \in 1..n |-> k], LAMBDA k : <<CityLink(k), NL>>)
    \o <<DivEnd, Empty, MainEnd, NL, Piece("<script>"), SearchAll, Piece("</script>")>>

\* index.html as generate_index writes it, or edited by hand: a line break
\* after <main>, a dashboard link among the cities, no </main>, a Visuals
\* section that has only a heading and an empty grid
IndexInputs ==
    { Replace(Replace(Replace(Replace(GeneratedIndex(n),
          <<Main, Grid>>, IF brk THEN <<Main, NL, Grid>> ELSE <<Main, Grid>>),
          <<DivEnd, Empty>>,
          IF stray THEN <<Anchor(Amenities, "Dashboard"), DivEnd, Empty>>
                   ELSE <<DivEnd, Empty>>),
          <<MainEnd>>,
          IF vis THEN <<Section, H2("Visuals"), ClassGrid, DivEnd, SectionEnd, MainEnd>>
                 ELSE <<MainEnd>>),
          <<MainEnd>>, IF closed THEN <<MainEnd>> ELSE <<>>) :
        n \in 0..MaxIndexCities, brk \in BOOLEAN, stray \in BOOLEAN,
        vis \in BOOLEAN, closed \in BOOLEAN }

\* index.html with its text, the text before the last call, and the calls made
IndexFileOf(text) == [kind |-> "file", text |-> text, before |-> text, applied |-> 0]

InitIndex ==
    /\ tracts_3347 = TractFrame
    /\ golf_points_3347 = None
    /\ exposure_df = <<>>
    /\ w_cache = <<>>
    /\ fit = NoFit
    /\ nfits = 0
    /\ pc = "main"
    /\ city = 0
    /\ queue = <<>>
    /\ index = <<>>
    /\ files = {}
    /\ built = {}
    /\ written = NoWrite
    /\ failures = <<>>
    /\ lag_failed = {}
    /\ prev_exposure = <<>>
    /\ added = 0
    /\ gdf = Loaded
    /\ norm = NotCalled(<<>>)
    /\ w_seen = <<>>
    /\ index_html \in {IndexFileOf(t) : t \in IndexInputs}
    /\ runner = RunnerIdle
    /\ cacher = CacherFresh

\* apply_index_enhancements()
ApplyIndexEnhancements ==
    /\ index_html # None
    /\ index_html.applied < MaxApplications
    /\ index_html' = [kind |-> "file",
                      text |-> EnhanceIndex(index_html.text),
                      before |-> index_html.text,
                      applied |-> index_html.applied + 1]
    /\ UNCHANGED <<api_vars, build_vars, add_vars, moran_vars, norm_vars, hist_vars,
                   runner, cacher>>

NextIndex == ApplyIndexEnhancements

SpecIndex == InitIndex /\ [][NextIndex]_vars

\* ------------------------------------ censusMapRunner and dataSiteRunner loops
KnownCities == 1..NumKnownCities

\* `except Exception` catches what derives from Exception; SystemExit derives
\* from BaseException only
ExceptException(raised) == raised # "SystemExit"

\* run(cmd): the exception raised for a return code, "none" for 0
run(returncode) == IF returncode # 0 THEN "SystemExit" ELSE "none"

\* return codes of the census_cacher.py subprocess
ReturnCodes == {0, 1}

\* ensure_cache_for_city: "none" when the cache exists or the subprocess
\* succeeds, else what run raises
ensure_cache_for_city(cached, c, returncode) ==
    IF c \in cached THEN "none" ELSE run(returncode)

\* censusMapRunner.main enters ensure_all_caches; some caches exist already
EnsureAllCachesStart ==
    /\ runner.pc = "idle"
    /\ \E cached \in SUBSET KnownCities :
         runner' = [pc |-> "ensure_all_caches",
                    todo |-> [i \in 1..NumKnownCities |-> i],
                    cached |-> cached, maps |-> {}, overwrite |-> FALSE,
                    processed |-> {}, nonzero |-> {}, reported |-> {}]
    /\ UNCHANGED <<api_vars, build_vars, add_vars, moran_vars, norm_vars, hist_vars,
                   index_html, cacher>>

\* one iteration of `for city, prov in KNOWN_CITIES.items()`
EnsureAllCachesStep ==
    /\ runner.pc = "ensure_all_caches"
    /\ runner.todo # <<>>
    /\ \E rc \in ReturnCodes :
         LET c == Head(runner.todo)
             raised == ensure_cache_for_city(runner.cached, c, rc)
             ran == c \notin runner.cached
             r1 == [runner EXCEPT
                      !.nonzero = IF ran /\ rc # 0 THEN @ \cup {c} ELSE @,
                      !.cached = IF ran /\ rc = 0 THEN @ \cup {c} ELSE @]
         IN  runner' =
               IF raised = "none"
               THEN [r1 EXCEPT !.todo = Tail(@), !.processed = @ \cup {c}]
               ELSE IF ExceptException(raised)
               THEN [r1 EXCEPT !.todo = Tail(@), !.processed = @ \cup {c},
                               !.reported = @ \cup {c}]
               ELSE [r1 EXCEPT !.pc = "exited"]
    /\ UNCHANGED <<api_vars, build_vars, add_vars, moran_vars, norm_vars, hist_vars,
                   index_html, cacher>>

\* dataSiteRunner.main enters ensure_maps: slugs are the directories that hold
\* a cache; a directory whose name is not the lower-case slug of its city name
\* is listed, but ensure_cache_for_city looks for the cache elsewhere
EnsureMapsStart ==
    /\ runner.pc = "idle"
    /\ \E slugs \in (SUBSET KnownCities) \ {{}}, maps \in SUBSET KnownCities,
          overwrite \in BOOLEAN :
         /\ maps \subseteq slugs
         /\ \E cached \in SUBSET slugs :
              runner' = [pc |-> "ensure_maps",
                         todo |-> SelectSeq([i \in 1..NumKnownCities |-> i],
                                            LAMBDA c : c \in slugs),
                         cached |-> cached, maps |-> maps, overwrite |-> overwrite,
                         processed |-> {}, nonzero |-> {}, reported |-> {}]
    /\ UNCHANGED <<api_vars, build_vars, add_vars, moran_vars, norm_vars, hist_vars,
                   index_html, cacher>>

\* one iteration of `for slug in slugs` of dataSiteRunner.ensure_maps
EnsureMapsStep ==
    /\ runner.pc = "ensure_maps"
    /\ runner.todo # <<>>
    /\ \E rc \in ReturnCodes, build_raises \in BOOLEAN :
         LET c == Head(runner.todo)
             skip == c \in runner.maps /\ ~runner.overwrite
             \* ensure_cache_if_needed: nothing to do when the map exists
             ran == ~skip /\ c \notin runner.maps /\ c \notin runner.cached
             raised == IF skip \/ c \in runner.maps THEN "none"
                       ELSE ensure_cache_for_city(runner.cached, c, rc)
             r1 == [runner EXCEPT
                      !.nonzero = IF ran /\ rc # 0 THEN @ \cup {c} ELSE @,
                      !.cached = IF ran /\ rc = 0 THEN @ \cup {c} ELSE @]
         IN  runner' =
               IF skip
               THEN [r1 EXCEPT !.todo = Tail(@), !.processed = @ \cup {c}]
               ELSE IF raised # "none" /\ ~ExceptException(raised)
               THEN [r1 EXCEPT !.pc = "exited"]
               ELSE IF raised # "none" \/ build_raises
               THEN [r1 EXCEPT !.todo = Tail(@), !.processed = @ \cup {c},
                               !.reported = @ \cup {c}]
               ELSE [r1 EXCEPT !.todo = Tail(@), !.processed = @ \cup {c},
                               !.maps = @ \cup {c}]
    /\ UNCHANGED <<api_vars, build_vars, add_vars, moran_vars, norm_vars, hist_vars,
                   index_html, cacher>>

\* the loop is over
RunnerLoopEnd ==
    /\ runner.pc \in {"ensure_all_caches", "ensure_maps"}
    /\ runner.todo = <<>>
    /\ runner' = [runner EXCEPT !.pc = "returned"]
    /\ UNCHANGED <<api_vars, build_vars, add_vars, moran_vars, norm_vars, hist_vars,
                   index_html, cacher>>

NextRunner ==
    EnsureAllCachesStart \/ EnsureAllCachesStep \/ EnsureMapsStart \/ EnsureMapsStep
    \/ RunnerLoopEnd

SpecRunner == Init /\ [][NextRunner]_vars

\* ------------------------------------------ census_cacher.build_city_cache_json
\* Two cities; a file of a city's cache directory is [city, name], name being
\* what follows the directory (and, where the code puts it, the slug).
CacherCities == {"vancouver", "quebec_city"}
LegacyCache == "profile_cache.json"
SlugCache == "{city_slug}_profile_cache.json"
SlugData == "{city_slug}_data.csv"
CacheFile(c, name) == [city |-> c, name |-> name]

\* line 207: the test that lets a call return at once
CacheIsReady(dir, c, overwrite) ==
    /\ \E f \in dir : f.city = c
    /\ CacheFile(c, LegacyCache) \in dir
    /\ ~overwrite

\* the stages one call runs: loading tracts and boundary, the clip, the CSV
\* filtering (only while {city_slug}_data.csv does not exist) and the JSON
\* build; load_city_boundary may raise
Stages(dir, c, overwrite, outcome) ==
    IF CacheIsReady(dir, c, overwrite) THEN {}
    ELSE IF outcome = "boundary_raises" THEN {"load"}
    ELSE {"load", "clip", "json"}
         \cup (IF CacheFile(c, SlugData) \in dir THEN {} ELSE {"csv"})

\* the dir after the call
FilesAfter(dir, c, stages) ==
    dir
    \cup (IF "csv" \in stages THEN {CacheFile(c, SlugData)} ELSE {})
    \cup (IF "json" \in stages THEN {CacheFile(c, SlugCache)} ELSE {})

InitCacher ==
    /\ tracts_3347 = TractFrame
    /\ golf_points_3347 = None
    /\ exposure_df = <<>>
    /\ w_cache = <<>>
    /\ fit = NoFit
    /\ nfits = 0
    /\ pc = "main"
    /\ city = 0
    /\ queue = <<>>
    /\ index = <<>>
    /\ files = {}
    /\ built = {}
    /\ written = NoWrite
    /\ failures = <<>>
    /\ lag_failed = {}
    /\ prev_exposure = <<>>
    /\ added = 0
    /\ gdf = Loaded
    /\ norm = NotCalled(<<>>)
    /\ w_seen = <<>>
    /\ index_html = None
    /\ runner = RunnerIdle
    /\ \E legacy \in SUBSET CacherCities :
         cacher = [CacherFresh EXCEPT !.files = {CacheFile(c, LegacyCache) : c \in legacy}]

\* build_city_cache_json(data_root, city, province, overwrite)
BuildCityCacheJson ==
    /\ cacher.calls < MaxCacheCalls
    /\ \E c \in CacherCities, overwrite \in BOOLEAN, outcome \in {"ok", "boundary_raises"} :
         LET stages == Stages(cacher.files, c, overwrite, outcome)
         IN  cacher' = [files |-> FilesAfter(cacher.files, c, stages),
                        wrote |-> IF "json" \in stages THEN cacher.wrote \cup {c}
                                  ELSE cacher.wrote,
                        calls |-> cacher.calls + 1,
                        last |-> [kind |-> "call", city |-> c, overwrite |-> overwrite,
                                  had_written |-> c \in cacher.wrote,
                                  stages |-> stages]]
    /\ UNCHANGED <<api_vars, build_vars, add_vars, moran_vars, norm_vars, hist_vars,
                   index_html, runner>>

NextCacher == BuildCityCacheJson

SpecCacher == InitCacher /\ [][NextCacher]_vars

\* -------------------------------------------------------------- properties
CtuidColumn(frame) == [i \in 1..Len(frame) |-> frame[i].CTUID]

GolfIsEmpty == golf_points_3347.kind = "None" \/ golf_points_3347.rows = <<>>

\* every weights object the program holds: the cached ones and the one of the
\* last fit
HeldWeights == {w_cache[k] : k \in DOMAIN w_cache} \cup ({fit.w} \ {None})

\* C1: the weights object used for a fit, freshly built or taken from _w_cache,
\* was built from exactly the CTUID column (same ids, same row order) of the
\* tract subset of that fit; a cached object is never used for another unit set.
C1_WeightsBuiltFromFitUnits ==
    (fit.reached_fit /\ fit.w # None) => fit.w.built_from = CtuidColumn(fit.sub)

\* number of reference geometries that intersect a tract polygon
TrueCount(g, golf) == Cardinality({k \in 1..Len(golf) : intersects(g, golf[k])})

\* C2: with a non-empty reference set, golf_count of every tract is the number
\* of reference geometries that intersect the tract's polygon (0 when none does).
C2_CountIsIntersections ==
    (exposure_df # <<>> /\ ~GolfIsEmpty) =>
        \A i \in 1..Len(tracts_3347) :
            exposure_df[i].golf_count =
                Num(TrueCount(tracts_3347[i].geometry, golf_points_3347.rows), 1)

\* C3: when the ML spatial-lag solver raises, the call still returns, and what
\* it returns is the z-scored least-squares fit of y on [1, X].
C3_SolverFailureFallsBackToOls ==
    fit.ml_raised =>
        /\ fit.status = "returned"
        /\ fit.out = ZScoreSeries(OlsFit(fit.y, fit.X), fit.rows)

\* C4: in every call that reaches the fit, sub has as many rows as y and X, and
\* row i of sub is the tract (id and polygon) whose metric value is y[i] and
\* whose exposure is X[i].
C4_RowsAligned ==
    fit.reached_fit =>
        /\ Len(fit.sub) = Len(fit.y)
        /\ Len(fit.sub) = Len(fit.X)
        /\ \A i \in 1..Len(fit.sub) :
             /\ fit.sub[i].CTUID = fit.rows[i].CTUID
             /\ fit.y[i] = MapValue(fit.values, fit.sub[i].CTUID)
             /\ \E j \in 1..Len(tracts_3347) :
                  /\ normalize_ctuid(tracts_3347[j].CTUID) = fit.sub[i].CTUID
                  /\ tracts_3347[j].geometry = fit.sub[i].geometry
                  /\ fit.X[i] = <<exposure_df[j].dist_to_gc_km, exposure_df[j].golf_count>>
C4_Witness ==
    /\ fit.reached_fit
    /\ Len(fit.sub) < Len(tracts_3347)
    /\ Len(fit.sub) > HeadN

\* C5: every row of y and X handed to the regression holds only finite numbers.
C5_FiniteRows ==
    fit.reached_fit =>
        \A i \in 1..Len(fit.y) :
            isfinite(fit.y[i]) /\ isfinite(fit.X[i][1]) /\ isfinite(fit.X[i][2])

\* C6: in every built weights object the neighbor relation is symmetric.
C6_NeighborsSymmetric ==
    \A w \in HeldWeights :
        \A a \in DOMAIN w.neighbors, b \in DOMAIN w.neighbors :
            /\ b \in w.neighbors[a] <=> a \in w.neighbors[b]
            /\ b \in DOMAIN w.weights[a] <=> a \in DOMAIN w.weights[b]
C6_Witness ==
    \E k \in DOMAIN w_cache :
        \E a \in DOMAIN w_cache[k].neighbors : Cardinality(w_cache[k].neighbors[a]) >= 2

\* sum of the rationals f[j], j in S
RECURSIVE RatSum(_, _)
RatSum(f, S) ==
    IF S = {} THEN Num(0, 1)
    ELSE LET j == CHOOSE x \in S : TRUE
             r == RatSum(f, S \ {j})
         IN Num(f[j].num * r.den + r.num * f[j].den, f[j].den * r.den)
RatEq(a, b) == a.num * b.den = b.num * a.den

\* C7: after row-normalization a unit with neighbor set N gives weight 1/|N| to
\* each neighbor and its weights sum to 1; an island has no outgoing weight.
C7_RowNormalized ==
    \A w \in HeldWeights :
        \A i \in DOMAIN w.neighbors :
            /\ DOMAIN w.weights[i] = w.neighbors[i]
            /\ \A j \in w.neighbors[i] :
                 RatEq(w.weights[i][j], Num(1, Cardinality(w.neighbors[i])))
            /\ w.neighbors[i] # {} =>
                 RatEq(RatSum(w.weights[i], w.neighbors[i]), Num(1, 1))
C7_Witness ==
    \E k \in DOMAIN w_cache :
        /\ \E i \in DOMAIN w_cache[k].neighbors : w_cache[k].neighbors[i] = {}
        /\ \E i \in DOMAIN w_cache[k].neighbors : Cardinality(w_cache[k].neighbors[i]) >= 3

\* C8: with an empty or absent reference set, the exposure frame has one record
\* per tract with dist_to_gc_km = NaN and golf_count = 0, and a fit on that
\* exposure returns no series, fits no tract and gives every tract a skip reason.
C8_EmptyReferencesAreMissing ==
    (exposure_df # <<>> /\ GolfIsEmpty) =>
        /\ Len(exposure_df) = Len(tracts_3347)
        /\ \A i \in 1..Len(tracts_3347) :
             /\ exposure_df[i].CTUID = tracts_3347[i].CTUID
             /\ exposure_df[i].dist_to_gc_km = NaN
             /\ exposure_df[i].golf_count = Num(0, 1)
        /\ fit.status # "none" =>
             /\ fit.status = "returned"
             /\ fit.out = None
             /\ fit.rows = <<>> /\ fit.y = <<>> /\ fit.X = <<>>
             /\ \A i \in 1..Len(tracts_3347) :
                  normalize_ctuid(tracts_3347[i].CTUID) \in DOMAIN fit.skip_reasons
C8_Witness == exposure_df # <<>> /\ GolfIsEmpty /\ fit.status = "returned"

\* C9: every input tract that is left out of the fit has an entry in the
\* returned skip_reasons, naming the cause that applies to it, and has no entry
\* in the returned series.
C9_ExcludedTractsHaveReasons ==
    fit.status = "returned" =>
        \A i \in 1..Len(tracts_3347) :
            LET id == normalize_ctuid(tracts_3347[i].CTUID)
            IN id \notin Range(CtuidColumn(fit.rows)) =>
                 /\ id \in DOMAIN fit.skip_reasons
                 /\ fit.skip_reasons[id] = MetricReason =>
                      ~isfinite(MapValue(fit.values, id))
                 /\ fit.skip_reasons[id] = ExposureReason =>
                      /\ isfinite(MapValue(fit.values, id))
                      /\ ~isfinite(exposure_df[i].dist_to_gc_km)
                 /\ fit.skip_reasons[id] \in {MetricReason, ExposureReason}
                 /\ fit.out # None => id \notin Range(fit.out.index)
C9_Witness ==
    /\ fit.status = "returned"
    /\ fit.out # None
    /\ \E i \in 1..Len(tracts_3347) :
         normalize_ctuid(tracts_3347[i].CTUID) \notin Range(fit.out.index)

IndexFile == CHOOSE f \in files : f.kind = "metrics_index.json"
Listed(idx) ==
    FlatMap(idx, LAMBDA e : [k \in 1..Len(e.metrics) |->
                                [category |-> e.category, metric |-> e.metrics[k].name]])

\* C10: a lag computation that raises aborts nothing: the metric's plain value
\* file is written and its city is no failure; a build that got past the loads
\* returns, with a plain file for every metric and a metrics_index.json that
\* lists every metric in order; and the batch goes on to the next city, and ends
\* only after every city was either built or recorded as a failure.
C10_FailuresAreIsolated ==
    /\ pc # "aborted"
    /\ \A slug \in lag_failed :
         /\ File(slug, ".json", <<>>) \in files
         /\ city \notin Range(failures)
    /\ (pc \in {"main", "done"} /\ city \in built) =>
         /\ \A k \in 1..Len(CityMetrics) :
              File(MetricSlug(CityMetrics[k]), ".json", <<>>) \in files
         /\ \E f \in files : f.kind = "metrics_index.json"
         /\ Listed(IndexFile.content) = CityMetrics
    /\ pc \in {"main", "done"} => \A c \in 1..city : c \in built \/ c \in Range(failures)
    /\ pc = "done" => city = NumCities
C10_Witness ==
    /\ pc = "done"
    /\ failures = <<1>>
    /\ NumCities \in built
    /\ MetricSlug(CityMetrics[1]) \in lag_failed

\* every number of a summary is finite
FiniteStats(st) == st = None \/ \A k \in (DOMAIN st) \ {"count"} : isfinite(st[k])
\* every value of a serialized dict is a finite number or null
FiniteOrNull(d) == d = None \/ \A k \in DOMAIN d : d[k] = None \/ isfinite(d[k])

\* C11: whatever an iteration of the metric loop serializes -- the plain
\* values, the lag values, the statistics and lag statistics for the index --
\* holds finite numbers or null only.
C11_OnlyFiniteSerialized ==
    /\ FiniteOrNull(written.plain)
    /\ FiniteOrNull(written.lag)
    /\ FiniteStats(written.stats)
    /\ FiniteStats(written.lagStats)

\* distance in metres from the representative point of tract i to the nearest
\* row of the golf frame
NearestM(i) ==
    LET ds == { distance(representative_point(tracts_3347[i].geometry),
                         golf_points_3347.rows[k]) : k \in 1..Len(golf_points_3347.rows) }
    IN CHOOSE m \in ds : \A x \in ds : m <= x
CapM == max_distance_km * distance_unit_m

\* C12: with a non-empty reference set no dist_to_gc_km exceeds max_distance_km;
\* a tract farther than the cap from every course gets exactly the cap, a tract
\* within the cap gets its planar distance in kilometres.
C12_DistanceCapped ==
    (exposure_df # <<>> /\ ~GolfIsEmpty) =>
        \A i \in 1..Len(tracts_3347) :
            LET d == exposure_df[i].dist_to_gc_km
                m == NearestM(i)
            IN /\ isfinite(d)
               /\ ~FLess(Num(max_distance_km, 1), d)
               /\ m > CapM => RatEq(d, Num(max_distance_km, 1))
               /\ m <= CapM => RatEq(d, Num(m, distance_unit_m))
C12_Witness ==
    /\ exposure_df # <<>> /\ ~GolfIsEmpty
    /\ \E i \in 1..Len(tracts_3347) : NearestM(i) > CapM
    /\ \E i \in 1..Len(tracts_3347) : NearestM(i) < CapM /\ NearestM(i) > 0

\* a count is a whole number >= 0
IsCount(c) == c.kind = "num" /\ c.den = 1 /\ c.num >= 0

FLeq(a, b) == FGeq(b, a)

PrevNonEmpty == \A i \in 1..Len(prev_exposure) : prev_exposure[i].dist_to_gc_km # NaN

GridSteps(i) == Abs(((i - 1) % 3) - 1) + Abs(((i - 1) \div 3) - 1)

\* C15: on the 3 x 3 grid, weights built from all nine tracts give each corner
\* 3 neighbours, each edge tract 5 and the centre 8; and with the one course at
\* the centre tract's representative point the centre has distance 0 and count
\* >= 1, no tract is farther than a corner, and a tract more steps from the
\* centre is never nearer.
C15_GridScenario ==
    /\ \A w \in HeldWeights :
         w.n = 9 =>
           \A i \in 1..9 :
             Cardinality(w.neighbors[i]) =
               (IF GridSteps(i) = 2 THEN 3 ELSE IF GridSteps(i) = 1 THEN 5 ELSE 8)
    /\ (exposure_df # <<>> /\ golf_points_3347 = [kind |-> "frame", rows |-> <<GridCentre>>]) =>
         /\ RatEq(exposure_df[5].dist_to_gc_km, Num(0, 1))
         /\ FLeq(Num(1, 1), exposure_df[5].golf_count)
         /\ \A i \in 1..9, j \in 1..9 :
              GridSteps(i) <= GridSteps(j) =>
                FLeq(exposure_df[i].dist_to_gc_km, exposure_df[j].dist_to_gc_km)
         /\ \A i \in 1..9 : GridSteps(i) < 2 =>
              FLess(exposure_df[i].dist_to_gc_km, exposure_df[1].dist_to_gc_km)
C15_Witness ==
    /\ exposure_df # <<>>
    /\ golf_points_3347 = [kind |-> "frame", rows |-> <<GridCentre>>]
    /\ \E k \in DOMAIN w_cache : w_cache[k].n = 9

\* C16: a returned series has one entry per row of y, in the order of y, and
\* entry i is indexed by the CTUID of the tract whose metric value is y[i] and
\* whose exposure is X[i].
C16_SeriesFollowsRows ==
    (fit.status = "returned" /\ fit.out # None) =>
        /\ Len(fit.out.index) = Len(fit.y)
        /\ Len(fit.out.zscore_of.y) = Len(fit.y)
        /\ \A i \in 1..Len(fit.y) :
             /\ fit.out.index[i] = fit.rows[i].CTUID
             /\ fit.y[i] = MapValue(fit.values, fit.out.index[i])
             /\ \E j \in 1..Len(tracts_3347) :
                  /\ normalize_ctuid(tracts_3347[j].CTUID) = fit.out.index[i]
                  /\ fit.X[i] = <<exposure_df[j].dist_to_gc_km, exposure_df[j].golf_count>>
        /\ \A i \in 1..Len(fit.y), j \in 1..Len(fit.y) :
             fit.out.index[i] = fit.out.index[j] => i = j
C16_Witness ==
    /\ fit.status = "returned" /\ fit.out # None
    /\ Len(fit.y) >= 2
    /\ Len(fit.y) < Len(tracts_3347)

\* C17: a unit whose p is at least alpha is labelled NotSig whatever its
\* quadrant, and a unit labelled HH, LH, LL or HL has p below alpha.
C17_NotSigAtOrAboveAlpha ==
    gdf.step = "labelled" =>
        \A i \in 1..Len(gdf.cluster) :
            /\ FGeq(gdf.local_p[i], alpha) => gdf.cluster[i] = "NotSig"
            /\ gdf.cluster[i] \in {"HH", "LH", "LL", "HL"} => FLess(gdf.local_p[i], alpha)
            /\ gdf.cluster[i] \in {"HH", "LH", "LL", "HL", "NotSig"}
C17_Witness ==
    /\ gdf.step = "labelled"
    /\ \E i \in 1..Len(gdf.cluster) : gdf.local_p[i] = alpha /\ gdf.local_q[i] = 1
    /\ \E i \in 1..Len(gdf.cluster) :
         FLess(alpha, gdf.local_p[i]) /\ gdf.local_q[i] = 4
    /\ \E i \in 1..Len(gdf.cluster) : gdf.cluster[i] = "LH"

\* the sign of unit i's standardized residual and of the average over its
\* neighbours
ZSign(i) == Sign(gdf.resid_std[i])
NbSign(i) == LagSign(MoranW, gdf.resid_std, i)
Pos == Num(1, 1)
Neg == Num(-1, 1)

\* C18: a significant unit is labelled by the signs of its own z-score and of
\* its neighbours' average: (+,+) HH, (-,-) LL, (+,-) HL, (-,+) LH, and by its
\* quadrant code: 1 HH, 2 LH, 3 LL, 4 HL.
C18_LabelFollowsSigns ==
    gdf.step = "labelled" =>
        \A i \in 1..Len(gdf.cluster) :
            FLess(gdf.local_p[i], alpha) =>
                /\ (ZSign(i) = Pos /\ NbSign(i) = Pos) => gdf.cluster[i] = "HH"
                /\ (ZSign(i) = Neg /\ NbSign(i) = Neg) => gdf.cluster[i] = "LL"
                /\ (ZSign(i) = Pos /\ NbSign(i) = Neg) => gdf.cluster[i] = "HL"
                /\ (ZSign(i) = Neg /\ NbSign(i) = Pos) => gdf.cluster[i] = "LH"
                /\ gdf.local_q[i] = 1 => gdf.cluster[i] = "HH"
                /\ gdf.local_q[i] = 2 => gdf.cluster[i] = "LH"
                /\ gdf.local_q[i] = 3 => gdf.cluster[i] = "LL"
                /\ gdf.local_q[i] = 4 => gdf.cluster[i] = "HL"
C18_Witness ==
    /\ gdf.step = "labelled"
    /\ \A l \in {"HH", "LL", "HL", "LH"} :
         \E i \in 1..Len(gdf.cluster) :
            /\ gdf.cluster[i] = l
            /\ ZSign(i) \in {Pos, Neg} /\ NbSign(i) \in {Pos, Neg}

\* C19: when all residuals are equal (standard deviation 0), every
\* standardized residual is 0 and every unit is labelled NotSig.
C19_ZeroSpread ==
    (gdf.step = "labelled" /\ \A i \in 1..Len(gdf.residual) : gdf.residual[i] = gdf.residual[1]) =>
        \A i \in 1..Len(gdf.residual) :
            /\ ZSign(i) = Num(0, 1)
            /\ gdf.cluster[i] = "NotSig"

\* C20: each _normalize_ctuid gives on its own result that result again, and
\* the two copies give the same result for the same value.
C20_IdempotentAndEqual ==
    /\ norm.lag # None => norm.lag.twice = norm.lag.once
    /\ norm.build # None => norm.build.twice = norm.build.once
    /\ (norm.lag # None /\ norm.build # None) => norm.lag.once = norm.build.once
C20_Witness ==
    /\ norm.lag # None /\ norm.build # None
    /\ norm.x.kind = "str"
    /\ norm.lag.once # norm.x.s
    /\ Len(norm.lag.once) < Len(norm.x.s) - 1
    /\ norm.build.once = norm.lag.once

\* no value occurs twice in a sequence
Distinct(s) == \A i \in 1..Len(s), j \in 1..Len(s) : s[i] = s[j] => i = j

C22_SameUnitsSameNeighbors ==
    (fit.status # "none" /\ fit.w # None) =>
        /\ CtuidColumn(fit.sub) \in DOMAIN w_seen
        /\ w_seen[CtuidColumn(fit.sub)] = fit.w.neighbors
C22_Witness ==
    /\ nfits >= 2
    /\ fit.status = "returned" /\ fit.w # None /\ fit.cache_hit
    /\ Len(fit.sub) >= 3
    /\ w_seen[CtuidColumn(fit.sub)] = fit.w.neighbors
    /\ fit.w.built_from = CtuidColumn(fit.sub)
    /\ \E i \in 1..Len(fit.sub) : fit.w.neighbors[i] # {}

\* C23: when the weights of a call that returned have a unit without neighbors,
\* a warning about it reaches the caller.
C23_IslandsSurfaced ==
    (fit.status = "returned" /\ fit.w # None /\ Islands(fit.w) # {}) =>
        fit.warnings # {}

\* C24: when the returned series comes from the least-squares fallback, what
\* the call returns says so: the returned tuple has a component beyond the
\* series and skip_reasons, or skip_reasons carries a reason other than the two
\* per-tract skip reasons.
C24_FallbackFlagged ==
    (fit.status = "returned" /\ fit.out # None /\ fit.method = "lstsq") =>
        \/ Len(Returned(fit)) > 2
        \/ \E id \in DOMAIN Returned(fit)[2] :
             Returned(fit)[2][id] \notin {MetricReason, ExposureReason}

\* C25: a second call of apply_index_enhancements in a row leaves index.html as
\* the first call wrote it.
C25_EnhancementsIdempotent ==
    (index_html # None /\ index_html.applied >= 2) => index_html.text = index_html.before

\* the call that just ended built weights itself / tried to and failed
BuiltNow(f) == f.reached_fit /\ ~f.cache_hit /\ f.w # None
BuildFailedNow(f) == f.reached_fit /\ ~f.cache_hit /\ f.w = None

\* C26: in every step each cache entry stays under its key with the same
\* weights object; a call builds weights only for a key that has no entry, and
\* then stores exactly that object under that key; a call whose build raises
\* leaves the cache as it was.
C26_CacheEntriesBuiltOnce ==
    [][ /\ \A k \in DOMAIN w_cache : k \in DOMAIN w_cache' /\ w_cache'[k] = w_cache[k]
        /\ (fit.status = "none" /\ BuiltNow(fit')) =>
              /\ cache_key(fit'.sub) \notin DOMAIN w_cache
              /\ DOMAIN w_cache' = DOMAIN w_cache \cup {cache_key(fit'.sub)}
              /\ w_cache'[cache_key(fit'.sub)] = fit'.w
        /\ (fit.status = "none" /\ ~BuiltNow(fit')) => w_cache' = w_cache
      ]_vars
C26_Witness ==
    /\ nfits >= 2
    /\ DOMAIN w_cache # {}
    /\ BuildFailedNow(fit)
    /\ cache_key(fit.sub) \notin DOMAIN w_cache

\* C27: a city whose cache-building subprocess exited with a non-zero status
\* has its failure reported by the loop, and the loop goes on: the process does
\* not end while cities are left.
C27_SubprocessFailureIsolated ==
    (runner.pc # "idle" /\ runner.nonzero # {}) =>
        /\ runner.nonzero \subseteq runner.reported
        /\ runner.pc # "exited"

\* C28: a call with overwrite = False for a city whose profile cache an earlier
\* call wrote runs neither the clip nor the CSV filtering nor the JSON build; a
\* call with overwrite = True that gets its boundary runs the clip and the JSON
\* build.
C28_NoRebuildWithoutOverwrite ==
    cacher.last # None =>
        /\ (cacher.last.had_written /\ ~cacher.last.overwrite) =>
              cacher.last.stages \cap {"clip", "csv", "json"} = {}
        /\ (cacher.last.overwrite /\ "clip" \in cacher.last.stages) =>
              "json" \in cacher.last.stages

\* C29: after a call a tract has an entry in skip_reasons exactly when it has
\* no row in y and X; a tract whose metric value is missing or not finite has
\* the metric reason, whatever its exposure.
C29_SkipReasonsAgreeWithFilter ==
    (fit.status # "none" /\ exposure_df # <<>>) =>
        \A i \in 1..Len(tracts_3347) :
            LET id == normalize_ctuid(tracts_3347[i].CTUID)
                inFit == \E k \in 1..Len(fit.y) : fit.rows[k].CTUID = id
            IN  /\ id \in DOMAIN fit.skip_reasons <=> ~inFit
                /\ ~isfinite(MapValue(fit.values, id)) =>
                     /\ id \in DOMAIN fit.skip_reasons
                     /\ fit.skip_reasons[id] = MetricReason

\* C30: a call of fit_metric_spatial_lag_values leaves the tract frame (CTUID
\* column and row order included), the exposure frame, the reference geometries
\* and the values mapping it was given as they were, and changes nothing but the
\* weights cache; a call of compute_exposure_features leaves the tract frame,
\* the reference geometries it was given and the weights cache as they were.
C30_InputsUnchanged ==
    [][ /\ (fit.status = "none" /\ fit'.status # "none") =>
              /\ tracts_3347' = tracts_3347
              /\ exposure_df' = exposure_df
              /\ golf_points_3347' = golf_points_3347
              /\ fit'.values \in ValueMaps \cup GridValueMaps
              /\ UNCHANGED <<build_vars, add_vars, moran_vars, norm_vars, tool_vars>>
        /\ (fit' = fit /\ nfits' = nfits) =>
              /\ tracts_3347' = tracts_3347
              /\ w_cache' = w_cache
              /\ exposure_df' # exposure_df =>
                   exposure_df' = compute_exposure_features(tracts_3347', golf_points_3347')
      ]_vars
C30_Witness ==
    /\ fit.status = "returned" /\ fit.out # None
    /\ DOMAIN w_cache # {}
    /\ tracts_3347 = TractFrame
    /\ \E i \in 1..Len(tracts_3347) :
         /\ tracts_3347[i].CTUID # normalize_ctuid(tracts_3347[i].CTUID)
         /\ exposure_df[i].CTUID = tracts_3347[i].CTUID
         /\ normalize_ctuid(tracts_3347[i].CTUID) \in Range(fit.out.index)

====
